---- MODULE Spec2Model ----
(***************************************************************************)
(* Filter conversion of sqlrepo: BaseFilterConverter.convert and its three *)
(* strategies (simple, advanced, django-like), with the guards, operator   *)
(* schemas, operator library and model introspection they use; then the    *)
(* operator functions called on their own, _convert_filter called without  *)
(* validation, apply_loads and apply_joins, the disable statement and the   *)
(* search filter of the query builder, disable of the repositories, the    *)
(* unit of work, and convert called concurrently.                          *)
(*                                                                         *)
(* Python values are records tagged with their type in the field py.       *)
(* A str is a sequence of tokens: "_" is the underscore character, every   *)
(* other token is a run of characters holding no underscore, so that       *)
(* str.split('__') is computed on the text and not looked up.              *)
(* A dict is the sequence of its items [k, v] in insertion order, with     *)
(* distinct keys.                                                          *)
(***************************************************************************)
EXTENDS Integers, Sequences, FiniteSets, TLC

VARIABLES
    cls,       \* the converter class convert is called on
    model,     \* the model argument
    arg,       \* the filters argument as the caller passed it (never written)
    filters,   \* the local variable filters of convert
    idx,       \* position of the for loop in filters (1-based)
    result,    \* the local list result of convert
    check,     \* (is_valid, message) of the element under the loop
    pc,        \* "call", "loop", "checked", "returned", "raised"
    ret,       \* the value convert returned
    exc,       \* the exception convert raised
    validated, \* positions handed to _is_filter_valid, in call order
    built,     \* positions handed to _convert_filter, in call order
    call,      \* the function under call with its arguments, when not convert
    stmt,      \* the local variable stmt of apply_loads / apply_joins
    loaders,   \* the local list loaders of apply_loads
    log,       \* the records the module logger, the query class or a session
               \* received, in order
    uow,       \* the unit of work: its session attribute
    sessions,  \* the sessions session_factory made: "open" or "closed"
    procs,     \* the locals of each of the concurrent convert calls
    mappings   \* the lookup_mapping class attributes the concurrent calls read

vars == <<cls, model, arg, filters, idx, result, check, pc, ret, exc, validated, built,
          call, stmt, loaders, log, uow, sessions, procs, mappings>>

\* The variables only convert uses, and the ones only the other calls use.
convertVars == <<cls, model, arg, filters, idx, result, check, validated, built>>
callVars == <<call, stmt, loaders, log>>
\* The variables of the unit of work and of the concurrent calls.
otherVars == <<uow, sessions, procs, mappings>>

\* Longest filters sequence a caller passes.
MaxLen == 2

(***************************************************************************)
(* Python values                                                           *)
(***************************************************************************)
PyNone == [py |-> "NoneType"]
PyInt(i) == [py |-> "int", i |-> i]
PyBool(b) == [py |-> "bool", b |-> b]
PyStr(s) == [py |-> "str", s |-> s]
PyTuple(items) == [py |-> "tuple", items |-> items]
PyList(items) == [py |-> "list", items |-> items]
PyDict(items) == [py |-> "dict", items |-> items]
ColumnElement(e) == [py |-> "ColumnElement", e |-> e]

NoValue == [py |-> "<nothing>"]

Item(k, v) == [k |-> k, v |-> v]
HasKey(d, k) == \E i \in 1..Len(d.items) : d.items[i].k = k
Get(d, k) == d.items[CHOOSE i \in 1..Len(d.items) : d.items[i].k = k].v
Keys(d) == {d.items[i].k : i \in 1..Len(d.items)}

\* f'%{b}%' and friends: string concatenation.
Concat(s, t) == s \o t

\* str.lower on the tokens the inputs use.
LowerToken(t) == CASE t = "ABC" -> "abc" [] t = "B" -> "b" [] OTHER -> t
Lower(s) == [i \in 1..Len(s) |-> LowerToken(s[i])]

\* str.split('__'): cut at each non-overlapping '__', scanning from the left.
RECURSIVE SplitFrom(_, _, _)
SplitFrom(s, i, cur) ==
    IF i > Len(s) THEN <<cur>>
    ELSE IF i < Len(s) /\ s[i] = "_" /\ s[i + 1] = "_"
         THEN <<cur>> \o SplitFrom(s, i + 2, <<>>)
         ELSE SplitFrom(s, i + 1, Append(cur, s[i]))

Split(s) == SplitFrom(s, 1, <<>>)

(***************************************************************************)
(* Exceptions                                                              *)
(***************************************************************************)
NoExc == [type |-> "<none>"]

NeverSituationError ==
    [type |-> "FilterError",
     text |-> "Never situation. Don't use _convert_filter method directly!"]

(***************************************************************************)
(* Models: what sqlalchemy's inspect() reports for the two mapped classes  *)
(***************************************************************************)
Models == {"MyModel", "OtherModel"}

Columns(m) ==
    IF m = "MyModel"
    THEN {<<"id">>, <<"name">>, <<"other", "_", "name">>, <<"dt">>, <<"bl">>}
    ELSE {<<"id">>, <<"name">>, <<"other", "_", "name">>,
          <<"my", "_", "model", "_", "id">>}

Relationships(m) ==
    IF m = "MyModel" THEN {<<"other", "_", "models">>} ELSE {<<"my", "_", "model">>}

HybridProperties(m) == {<<"full", "_", "name">>}

HybridMethods(m) == {<<"get", "_", "full", "_", "name">>}

\* Mapper.all_orm_descriptors: every descriptor with its extension type.
AllOrmDescriptors(m) ==
    {[key |-> c, extension_type |-> "NOT_EXTENSION"] : c \in Columns(m) \cup Relationships(m)}
    \cup {[key |-> h, extension_type |-> "HYBRID_PROPERTY"] : h \in HybridProperties(m)}
    \cup {[key |-> h, extension_type |-> "HYBRID_METHOD"] : h \in HybridMethods(m)}

is_hybrid_property(orm_descriptor) == orm_descriptor.extension_type = "HYBRID_PROPERTY"

is_hybrid_method(orm_descriptor) == orm_descriptor.extension_type = "HYBRID_METHOD"

\* Faulty variant: hybrid properties and hybrid methods left out.
get_valid_field_names_columns_only(m) == Columns(m)

get_valid_field_names(m) ==
    LET column_names == Columns(m)
        hybrid_names == {d.key : d \in {x \in AllOrmDescriptors(m) :
                                          is_hybrid_property(x) \/ is_hybrid_method(x)}}
    IN  column_names \cup hybrid_names

\* getattr(model, field_name), called when it is a method (a hybrid method).
get_sqlalchemy_field(m, field_name) ==
    [py |-> "QueryableAttribute", model |-> m, attr |-> field_name,
     called |-> field_name \in HybridMethods(m)]

(***************************************************************************)
(* Operator library (filters/operators.py) and the comparison operators of *)
(* the standard operator module; each builds the description of a          *)
(* predicate over a model attribute a and a value b                        *)
(***************************************************************************)
eq(a, b) == ColumnElement([op |-> "==", a |-> a, b |-> b])
gt(a, b) == ColumnElement([op |-> ">", a |-> a, b |-> b])
lt(a, b) == ColumnElement([op |-> "<", a |-> a, b |-> b])
ge(a, b) == ColumnElement([op |-> ">=", a |-> a, b |-> b])
le(a, b) == ColumnElement([op |-> "<=", a |-> a, b |-> b])

false == ColumnElement([op |-> "false"])

is_(a, b) == ColumnElement([op |-> "IS", a |-> a, b |-> b])

is_not(a, b) == ColumnElement([op |-> "IS NOT", a |-> a, b |-> b])

like(a, b) == ColumnElement([op |-> "LIKE", a |-> a, b |-> b])

ilike(a, b) == ColumnElement([op |-> "ILIKE", a |-> a, b |-> b])

\* Faulty variant: only a value that is too short is refused.
between_at_least_two(a, b) ==
    IF Len(b.items) < 2 THEN false
    ELSE ColumnElement([op |-> "BETWEEN", a |-> a, lo |-> b.items[1], hi |-> b.items[2]])

between(a, b) ==
    IF Len(b.items) # 2 THEN false
    ELSE ColumnElement([op |-> "BETWEEN", a |-> a, lo |-> b.items[1], hi |-> b.items[2]])

contains(a, b) == ColumnElement([op |-> "IN", a |-> a, b |-> b])

django_exact(a, b) == IF b = PyNone THEN is_(a, PyNone) ELSE eq(a, b)

\* Faulty variant: None is not told apart from the other values.
django_iexact_no_none_check(a, b) == IF b.py = "str" THEN ilike(a, b) ELSE eq(a, b)

django_iexact(a, b) ==
    IF b = PyNone THEN is_(a, PyNone)
    ELSE IF b.py = "str" THEN ilike(a, b)
    ELSE eq(a, b)

django_contains(a, b) ==
    like(a, IF b.py = "str" THEN PyStr(Concat(<<"%">>, Concat(b.s, <<"%">>))) ELSE b)

django_icontains(a, b) ==
    ilike(a, IF b.py = "str" THEN PyStr(Concat(<<"%">>, Concat(b.s, <<"%">>))) ELSE b)

django_startswith(a, b) ==
    like(a, IF b.py = "str" THEN PyStr(Concat(b.s, <<"%">>)) ELSE b)

django_istartswith(a, b) ==
    ilike(a, IF b.py = "str" THEN PyStr(Concat(b.s, <<"%">>)) ELSE b)

django_endswith(a, b) ==
    like(a, IF b.py = "str" THEN PyStr(Concat(<<"%">>, b.s)) ELSE b)

\* Faulty variant: the wildcard is put after the value.
django_iendswith_wildcard_after(a, b) ==
    ilike(a, IF b.py = "str" THEN PyStr(Concat(b.s, <<"%">>)) ELSE b)

django_iendswith(a, b) ==
    ilike(a, IF b.py = "str" THEN PyStr(Concat(<<"%">>, b.s)) ELSE b)

django_range(a, b) == between(a, b)

cast(a, type) == [py |-> "Cast", of |-> a, type |-> type]

extract(part, a) == [py |-> "Extract", part |-> part, of |-> a]

django_date(a, b) == eq(cast(a, "Date"), b)
django_year(a, b) == eq(extract("year", a), b)
django_iso_year(a, b) == eq(extract("isoyear", a), b)
django_month(a, b) == eq(extract("month", a), b)
django_day(a, b) == eq(extract("day", a), b)
django_week(a, b) == eq(extract("week", a), b)
django_week_day(a, b) == eq(extract("dow", a), b)
django_iso_week_day(a, b) == eq(extract("isodow", a), b)
django_quarter(a, b) == eq(extract("quarter", a), b)
django_time(a, b) == eq(cast(a, "Time"), b)
django_hour(a, b) == eq(extract("hour", a), b)
django_minute(a, b) == eq(extract("minute", a), b)
django_second(a, b) == eq(extract("second", a), b)

\* Faulty variant: the two branches are swapped.
django_isnull_swapped(a, b) == IF b.b THEN is_not(a, PyNone) ELSE is_(a, PyNone)

django_isnull(a, b) == IF b.b THEN is_(a, PyNone) ELSE is_not(a, PyNone)

django_regex(a, b) == ColumnElement([op |-> "REGEXP", a |-> a, b |-> b])

django_iregex(a, b) ==
    ColumnElement([op |-> "REGEXP", a |-> [py |-> "Function", name |-> "lower", of |-> a],
                   b |-> PyStr(Lower(b.s))])

\* Calling the function object a lookup_mapping entry holds.
Call(func, a, b) ==
    CASE func = "builtin_operator.eq" -> eq(a, b)
      [] func = "builtin_operator.gt" -> gt(a, b)
      [] func = "builtin_operator.lt" -> lt(a, b)
      [] func = "builtin_operator.ge" -> ge(a, b)
      [] func = "builtin_operator.le" -> le(a, b)
      [] func = "is_" -> is_(a, b)
      [] func = "is_not" -> is_not(a, b)
      [] func = "between" -> between(a, b)
      [] func = "contains" -> contains(a, b)
      [] func = "django_exact" -> django_exact(a, b)
      [] func = "django_iexact" -> django_iexact(a, b)
      [] func = "django_contains" -> django_contains(a, b)
      [] func = "django_icontains" -> django_icontains(a, b)
      [] func = "django_startswith" -> django_startswith(a, b)
      [] func = "django_istartswith" -> django_istartswith(a, b)
      [] func = "django_endswith" -> django_endswith(a, b)
      [] func = "django_iendswith" -> django_iendswith(a, b)
      [] func = "django_range" -> django_range(a, b)
      [] func = "django_date" -> django_date(a, b)
      [] func = "django_year" -> django_year(a, b)
      [] func = "django_iso_year" -> django_iso_year(a, b)
      [] func = "django_month" -> django_month(a, b)
      [] func = "django_day" -> django_day(a, b)
      [] func = "django_week" -> django_week(a, b)
      [] func = "django_week_day" -> django_week_day(a, b)
      [] func = "django_iso_week_day" -> django_iso_week_day(a, b)
      [] func = "django_quarter" -> django_quarter(a, b)
      [] func = "django_time" -> django_time(a, b)
      [] func = "django_hour" -> django_hour(a, b)
      [] func = "django_minute" -> django_minute(a, b)
      [] func = "django_second" -> django_second(a, b)
      [] func = "django_isnull" -> django_isnull(a, b)
      [] func = "django_regex" -> django_regex(a, b)
      [] func = "django_iregex" -> django_iregex(a, b)

(***************************************************************************)
(* Operator schemas (filters/schemas.py) and guards (filters/guards.py)    *)
(***************************************************************************)
DjangoOperatorsSet ==
    {<<"exact">>, <<"iexact">>, <<"contains">>, <<"icontains">>, <<"in">>, <<"gt">>,
     <<"gte">>, <<"lt">>, <<"lte">>, <<"startswith">>, <<"istartswith">>,
     <<"endswith">>, <<"iendswith">>, <<"range">>, <<"date">>, <<"year">>,
     <<"iso", "_", "year">>, <<"month">>, <<"day">>, <<"week">>, <<"week", "_", "day">>,
     <<"iso", "_", "week", "_", "day">>, <<"quarter">>, <<"time">>, <<"hour">>,
     <<"minute">>, <<"second">>, <<"isnull">>, <<"regex">>, <<"iregex">>}

AdvancedOperatorsSet ==
    {<<"==">>, <<">">>, <<"<">>, <<">=">>, <<"<=">>, <<"between">>, <<"contains">>}

\* value in set, for a set of strings and a value of any hashable type.
InStrSet(value, set) == value.py = "str" /\ value.s \in set

\* Faulty variant: any additional key makes the dict fail the guard.
is_dict_simple_filter_dict_closed(value) ==
    /\ HasKey(value, <<"field">>) /\ Get(value, <<"field">>).py = "str"
    /\ HasKey(value, <<"value">>)
    /\ HasKey(value, <<"operator">>)
           => InStrSet(Get(value, <<"operator">>), AdvancedOperatorsSet)
    /\ Keys(value) \subseteq {<<"field">>, <<"value">>, <<"operator">>}

\* Faulty variant: the operator is not looked at.
is_dict_simple_filter_dict_any_operator(value) ==
    /\ HasKey(value, <<"field">>) /\ Get(value, <<"field">>).py = "str"
    /\ HasKey(value, <<"value">>)

is_dict_simple_filter_dict(value) ==
    IF ~HasKey(value, <<"field">>) \/ Get(value, <<"field">>).py # "str" THEN FALSE
    ELSE IF ~HasKey(value, <<"value">>) THEN FALSE
    ELSE IF HasKey(value, <<"operator">>)
            /\ ~InStrSet(Get(value, <<"operator">>), AdvancedOperatorsSet) THEN FALSE
    ELSE TRUE

(***************************************************************************)
(* Converters (filters/converters.py)                                      *)
(***************************************************************************)
Min(S) == CHOOSE x \in S : \A y \in S : x <= y

\* What a call gives back: a value, or an exception.
Returned(value) == [exc |-> NoExc, value |-> value]
Raised(e) == [exc |-> e, value |-> NoValue]

Valid == [is_valid |-> TRUE, message |-> [text |-> ""]]
Invalid(message) == [is_valid |-> FALSE, message |-> message]

NoFieldMessage(m, field_name) ==
    [text |-> "Model or select statement {} has no field \"{}\".",
     model |-> m, field |-> field_name]

NotSubtypeMessage == [text |-> "filter dict is not subtype of OperatorFilterDict."]

NestedMessage ==
    [text |-> "DjangoLikeFilterConverter can't use nested filters or related model filters yet."]

UnexpectedLookupMessage(lookup, all_lookup_mapping) ==
    [text |-> "Unexpected lookup \"{}\".Valid lookups: {}.",
     lookup |-> lookup, valid |-> all_lookup_mapping]

\* getattr(model, name) finds the mapped attributes of the class.
HasAttr(m, name) ==
    name \in Columns(m) \cup Relationships(m) \cup HybridProperties(m) \cup HybridMethods(m)

AttributeError(m, name) == [type |-> "AttributeError", model |-> m, attr |-> name]

KeyError(key) == [type |-> "KeyError", key |-> key]

Simple_lookup_mapping == <<>>

\* Faulty variant: the table has no entry for 'between'.
Advanced_lookup_mapping_without_between ==
    (<<"==">> :> "builtin_operator.eq") @@ (<<">">> :> "builtin_operator.gt")
    @@ (<<"<">> :> "builtin_operator.lt") @@ (<<">=">> :> "builtin_operator.ge")
    @@ (<<"<=">> :> "builtin_operator.le") @@ (<<"is">> :> "is_")
    @@ (<<"is", "_", "not">> :> "is_not") @@ (<<"contains">> :> "contains")

Advanced_lookup_mapping ==
    (<<"==">> :> "builtin_operator.eq") @@ (<<">">> :> "builtin_operator.gt")
    @@ (<<"<">> :> "builtin_operator.lt") @@ (<<">=">> :> "builtin_operator.ge")
    @@ (<<"<=">> :> "builtin_operator.le") @@ (<<"is">> :> "is_")
    @@ (<<"is", "_", "not">> :> "is_not") @@ (<<"between">> :> "between")
    @@ (<<"contains">> :> "contains")

Django_lookup_mapping ==
    (<<"exact">> :> "django_exact") @@ (<<"iexact">> :> "django_iexact")
    @@ (<<"contains">> :> "django_contains") @@ (<<"icontains">> :> "django_icontains")
    @@ (<<"in">> :> "contains") @@ (<<"gt">> :> "builtin_operator.gt")
    @@ (<<"gte">> :> "builtin_operator.ge") @@ (<<"lt">> :> "builtin_operator.lt")
    @@ (<<"lte">> :> "builtin_operator.le") @@ (<<"startswith">> :> "django_startswith")
    @@ (<<"istartswith">> :> "django_istartswith") @@ (<<"endswith">> :> "django_endswith")
    @@ (<<"iendswith">> :> "django_iendswith") @@ (<<"range">> :> "django_range")
    @@ (<<"date">> :> "django_date") @@ (<<"year">> :> "django_year")
    @@ (<<"iso", "_", "year">> :> "django_iso_year") @@ (<<"month">> :> "django_month")
    @@ (<<"day">> :> "django_day") @@ (<<"week">> :> "django_week")
    @@ (<<"week", "_", "day">> :> "django_week_day")
    @@ (<<"iso", "_", "week", "_", "day">> :> "django_iso_week_day")
    @@ (<<"quarter">> :> "django_quarter") @@ (<<"time">> :> "django_time")
    @@ (<<"hour">> :> "django_hour") @@ (<<"minute">> :> "django_minute")
    @@ (<<"second">> :> "django_second") @@ (<<"isnull">> :> "django_isnull")
    @@ (<<"regex">> :> "django_regex") @@ (<<"iregex">> :> "django_iregex")

\* ---- SimpleFilterConverter ----

Simple_is_filter_valid(m, filter_) ==
    LET bad == {i \in 1..Len(filter_.items) :
                    filter_.items[i].k \notin get_valid_field_names(m)}
    IN  IF bad # {}
        THEN Invalid(NoFieldMessage(m, filter_.items[Min(bad)].k))
        ELSE Valid

\* Faulty variant: only the first key is translated.
Simple_convert_filter_first_only(m, filter_) ==
    IF filter_.items = <<>> THEN Returned(<<>>)
    ELSE IF ~HasAttr(m, filter_.items[1].k)
         THEN Raised(AttributeError(m, filter_.items[1].k))
         ELSE Returned(<<eq(get_sqlalchemy_field(m, filter_.items[1].k),
                            filter_.items[1].v)>>)

Simple_convert_filter(m, filter_) ==
    LET operator_func == "builtin_operator.eq"
        missing == {i \in 1..Len(filter_.items) : ~HasAttr(m, filter_.items[i].k)}
    IN  IF missing # {}
        THEN Raised(AttributeError(m, filter_.items[Min(missing)].k))
        ELSE Returned([i \in 1..Len(filter_.items) |->
                          Call(operator_func,
                               get_sqlalchemy_field(m, filter_.items[i].k),
                               filter_.items[i].v)])

\* ---- AdvancedOperatorFilterConverter ----

Advanced_is_filter_valid(m, filter_) ==
    IF ~is_dict_simple_filter_dict(filter_) THEN Invalid(NotSubtypeMessage)
    ELSE LET field == Get(filter_, <<"field">>).s
         IN  IF field \notin get_valid_field_names(m)
             THEN Invalid(NoFieldMessage(m, field))
             ELSE Valid

\* Faulty variant: the operator key is ignored and equality always used.
Advanced_convert_filter_eq_only(m, filter_) ==
    IF ~is_dict_simple_filter_dict(filter_) THEN Raised(NeverSituationError)
    ELSE IF ~HasAttr(m, Get(filter_, <<"field">>).s)
         THEN Raised(AttributeError(m, Get(filter_, <<"field">>).s))
         ELSE Returned(<<eq(get_sqlalchemy_field(m, Get(filter_, <<"field">>).s),
                            Get(filter_, <<"value">>))>>)

Advanced_convert_filter(m, filter_) ==
    IF ~is_dict_simple_filter_dict(filter_) THEN Raised(NeverSituationError)
    ELSE LET operator_str == IF HasKey(filter_, <<"operator">>)
                             THEN Get(filter_, <<"operator">>) ELSE PyStr(<<"==">>)
             field == Get(filter_, <<"field">>).s
         IN  IF ~InStrSet(operator_str, DOMAIN Advanced_lookup_mapping)
             THEN Raised(KeyError(operator_str))
             ELSE IF ~HasAttr(m, field) THEN Raised(AttributeError(m, field))
             ELSE Returned(<<Call(Advanced_lookup_mapping[operator_str.s],
                                  get_sqlalchemy_field(m, field),
                                  Get(filter_, <<"value">>))>>)

\* ---- DjangoLikeFilterConverter ----

\* The verdict of one pass of the validation loop, on the key field.
Django_key_valid(m, field) ==
    LET field_parts == Split(field)
    IN  IF Len(field_parts) > 2 THEN Invalid(NestedMessage)
        ELSE LET field_name == field_parts[1]
                 lookup == IF Len(field_parts) = 1 THEN <<"exact">> ELSE field_parts[2]
             IN  IF field_name \notin get_valid_field_names(m)
                 THEN Invalid(NoFieldMessage(m, field_name))
                 ELSE IF lookup \notin DOMAIN Django_lookup_mapping
                 THEN Invalid(UnexpectedLookupMessage(lookup, DOMAIN Django_lookup_mapping))
                 ELSE Valid

\* Faulty variant: the lookup part is not checked.
Django_is_filter_valid_no_lookup_check(m, filter_) ==
    LET bad == {i \in 1..Len(filter_.items) :
                    \/ Len(Split(filter_.items[i].k)) > 2
                    \/ Split(filter_.items[i].k)[1] \notin get_valid_field_names(m)}
    IN  IF bad # {} THEN Invalid(NestedMessage) ELSE Valid

Django_is_filter_valid(m, filter_) ==
    LET bad == {i \in 1..Len(filter_.items) :
                    ~Django_key_valid(m, filter_.items[i].k).is_valid}
    IN  IF bad # {} THEN Django_key_valid(m, filter_.items[Min(bad)].k) ELSE Valid

\* One pass of the translation loop, on the item (field, value).
Django_convert_item(m, field, value) ==
    LET field_parts == Split(field)
    IN  IF Len(field_parts) > 2 THEN Raised(NeverSituationError)
        ELSE LET field_name == field_parts[1]
                 lookup == IF Len(field_parts) = 1 THEN <<"exact">> ELSE field_parts[2]
             IN  IF lookup \notin DOMAIN Django_lookup_mapping THEN Raised(KeyError(lookup))
                 ELSE IF ~HasAttr(m, field_name) THEN Raised(AttributeError(m, field_name))
                 ELSE Returned(Call(Django_lookup_mapping[lookup],
                                    get_sqlalchemy_field(m, field_name), value))

\* Faulty variant: the list is rebuilt on every pass of the loop, so that only
\* the last item's predicate is returned.
Django_convert_filter_last_key_only(m, filter_) ==
    IF filter_.items = <<>> THEN Returned(<<>>)
    ELSE LET last == filter_.items[Len(filter_.items)]
             out == Django_convert_item(m, last.k, last.v)
         IN  IF out.exc # NoExc THEN Raised(out.exc) ELSE Returned(<<out.value>>)

Django_convert_filter(m, filter_) ==
    LET failing == {i \in 1..Len(filter_.items) :
                        Django_convert_item(m, filter_.items[i].k, filter_.items[i].v).exc
                            # NoExc}
    IN  IF failing # {}
        THEN Raised(Django_convert_item(m, filter_.items[Min(failing)].k,
                                        filter_.items[Min(failing)].v).exc)
        ELSE Returned([i \in 1..Len(filter_.items) |->
                          Django_convert_item(m, filter_.items[i].k,
                                              filter_.items[i].v).value])

\* ---- BaseFilterConverter: dispatch on the class ----

Classes == {"SimpleFilterConverter", "AdvancedOperatorFilterConverter",
            "DjangoLikeFilterConverter"}

is_filter_valid(c, m, filter_) ==
    CASE c = "SimpleFilterConverter" -> Simple_is_filter_valid(m, filter_)
      [] c = "AdvancedOperatorFilterConverter" -> Advanced_is_filter_valid(m, filter_)
      [] c = "DjangoLikeFilterConverter" -> Django_is_filter_valid(m, filter_)

convert_filter(c, m, filter_) ==
    CASE c = "SimpleFilterConverter" -> Simple_convert_filter(m, filter_)
      [] c = "AdvancedOperatorFilterConverter" -> Advanced_convert_filter(m, filter_)
      [] c = "DjangoLikeFilterConverter" -> Django_convert_filter(m, filter_)

\* Faulty variant: a lone filter is dropped instead of wrapped.
WrapFilters_drop(f) == IF f.py = "list" THEN f ELSE PyList(<<>>)

\* if not isinstance(filters, Sequence): filters = [filters]
WrapFilters(f) == IF f.py \in {"list", "tuple"} THEN f ELSE PyList(<<f>>)

\* Faulty variant: new predicates go in front of the earlier ones.
ExtendResult_front(res, predicates) == predicates \o res

\* result.extend(...)
ExtendResult(res, predicates) == res \o predicates

\* Faulty variant: the message names neither the filter nor the reason.
FilterNotValid_bare(filter_, message) ==
    [type |-> "FilterError", text |-> "Filter is not valid", data |-> PyNone,
     message |-> [text |-> ""]]

\* raise FilterError(f'Filter with data {filter_} is not valid: {message}')
FilterNotValid(filter_, message) ==
    [type |-> "FilterError", text |-> "Filter with data {} is not valid: {}",
     data |-> filter_, message |-> message]

(***************************************************************************)
(* The filters callers pass                                                *)
(***************************************************************************)
F_id == <<"id">>
F_name == <<"name">>
F_dt == <<"dt">>
F_full_name == <<"full", "_", "name">>
F_get_full_name == <<"get", "_", "full", "_", "name">>
F_other_models == <<"other", "_", "models">>
F_wrong_field_name == <<"wrong", "_", "field", "_", "name">>

K_field == <<"field">>
K_value == <<"value">>
K_operator == <<"operator">>

V_abc == PyStr(<<"abc">>)
V_pair == PyTuple(<<PyInt(25), PyInt(28)>>)
V_three == PyList(<<PyInt(1), PyInt(2), PyInt(3)>>)

\* Raw predicates: MyModel.id == 25 and MyModel.name.is_not(None).
RawFilters ==
    {eq(get_sqlalchemy_field("MyModel", F_id), PyInt(25)),
     is_not(get_sqlalchemy_field("MyModel", F_name), PyNone)}

\* {field: value} maps.
SimpleDicts ==
    {PyDict(<<>>),
     PyDict(<<Item(F_id, PyInt(25))>>),
     PyDict(<<Item(F_id, PyInt(25)), Item(F_name, V_abc)>>),
     PyDict(<<Item(F_name, V_abc), Item(F_id, PyInt(25))>>),
     PyDict(<<Item(F_full_name, V_abc)>>),
     PyDict(<<Item(F_get_full_name, V_abc)>>),
     PyDict(<<Item(F_dt, PyNone)>>),
     PyDict(<<Item(F_wrong_field_name, PyInt(25))>>),
     PyDict(<<Item(F_id, PyInt(25)), Item(F_wrong_field_name, PyInt(1))>>),
     PyDict(<<Item(F_other_models, PyInt(1))>>)}

Advanced(field, value) == PyDict(<<Item(K_field, field), Item(K_value, value)>>)

AdvancedOp(field, value, operator) ==
    PyDict(<<Item(K_field, field), Item(K_value, value), Item(K_operator, operator)>>)

\* {field, value, operator} maps, well formed and not.
AdvancedDicts ==
    {Advanced(PyStr(F_id), PyInt(25)),
     Advanced(PyStr(F_full_name), V_abc),
     Advanced(PyStr(F_get_full_name), V_abc),
     AdvancedOp(PyStr(F_name), V_abc, PyStr(<<"==">>)),
     AdvancedOp(PyStr(F_id), PyInt(25), PyStr(<<">">>)),
     AdvancedOp(PyStr(F_id), PyInt(25), PyStr(<<"<">>)),
     AdvancedOp(PyStr(F_id), PyInt(25), PyStr(<<">=">>)),
     AdvancedOp(PyStr(F_id), V_pair, PyStr(<<"between">>)),
     AdvancedOp(PyStr(F_id), V_three, PyStr(<<"between">>)),
     AdvancedOp(PyStr(F_id), V_three, PyStr(<<"contains">>)),
     AdvancedOp(PyStr(F_name), PyNone, PyStr(<<"is">>)),
     AdvancedOp(PyStr(F_name), PyNone, PyStr(<<"is", "_", "not">>)),
     AdvancedOp(PyStr(F_id), PyInt(25), PyStr(<<"pow">>)),
     AdvancedOp(PyStr(F_id), PyInt(25), PyInt(5)),
     PyDict(<<Item(K_operator, PyStr(<<"<=">>)), Item(K_value, PyInt(25)),
              Item(K_field, PyStr(F_id))>>),
     Advanced(PyInt(125), PyInt(25)),
     Advanced(PyStr(F_wrong_field_name), V_abc),
     Advanced(PyStr(F_other_models), PyInt(1)),
     PyDict(<<Item(K_field, PyStr(F_id)), Item(K_operator, PyStr(<<">">>))>>),
     PyDict(<<Item(K_value, PyInt(25))>>),
     PyDict(<<Item(<<"no", "_", "field", "_", "key">>, PyStr(F_wrong_field_name))>>),
     PyDict(<<Item(K_field, PyStr(F_id)), Item(K_value, PyInt(25)),
              Item(<<"extra">>, PyInt(1))>>),
     PyDict(<<Item(<<"comment">>, V_abc), Item(K_field, PyStr(F_name)),
              Item(K_value, V_abc), Item(K_operator, PyStr(<<"==">>))>>)}

Lookup(field, lookup) == field \o <<"_", "_">> \o lookup

\* {field__lookup: value} maps, well formed and not.
DjangoDicts ==
    {PyDict(<<Item(Lookup(F_id, <<"gte">>), PyInt(18))>>),
     PyDict(<<Item(Lookup(F_id, <<"exact">>), PyInt(25))>>),
     PyDict(<<Item(Lookup(F_name, <<"exact">>), PyNone)>>),
     PyDict(<<Item(Lookup(F_full_name, <<"icontains">>), V_abc)>>),
     PyDict(<<Item(Lookup(F_get_full_name, <<"iexact">>), V_abc)>>),
     PyDict(<<Item(Lookup(F_name, <<"isnull">>), PyBool(FALSE)),
              Item(Lookup(F_id, <<"in">>), V_three)>>),
     PyDict(<<Item(Lookup(F_dt, <<"iso", "_", "week", "_", "day">>), PyInt(5)),
              Item(Lookup(F_id, <<"range">>), V_pair)>>),
     PyDict(<<Item(Lookup(F_name, <<"iregex">>), PyStr(<<"^(", "B", "|c)">>))>>),
     PyDict(<<Item(Lookup(F_id, <<>>), PyInt(25))>>),
     PyDict(<<Item(Lookup(F_id, <<"wrong", "_", "lookup">>), PyInt(25))>>),
     PyDict(<<Item(Lookup(F_id, <<"_", "gt">>), PyInt(1))>>),
     PyDict(<<Item(Lookup(Lookup(Lookup(F_dt, <<"hour">>), <<"gt">>), <<"abc">>),
                   PyInt(2))>>),
     PyDict(<<Item(Lookup(Lookup(F_id, <<"year">>), <<"gt">>), PyInt(2))>>),
     PyDict(<<Item(Lookup(F_wrong_field_name, <<"gt">>), PyInt(2))>>),
     PyDict(<<Item(Lookup(F_other_models, <<"exact">>), PyInt(1))>>),
     PyDict(<<Item(Lookup(F_id, <<"gte">>), PyInt(18)),
              Item(Lookup(F_id, <<"wrong", "_", "lookup">>), PyInt(1))>>)}

\* The lone filters and sequence elements a caller of class c passes: raw
\* predicates, the maps of c's own shape, and maps of the other shapes.
Elements(c) ==
    RawFilters \cup
    CASE c = "SimpleFilterConverter" ->
             SimpleDicts \cup {Advanced(PyStr(F_id), PyInt(25)),
                               PyDict(<<Item(Lookup(F_id, <<"gte">>), PyInt(18))>>)}
      [] c = "AdvancedOperatorFilterConverter" ->
             AdvancedDicts \cup {PyDict(<<>>), PyDict(<<Item(F_id, PyInt(25))>>)}
      [] c = "DjangoLikeFilterConverter" ->
             DjangoDicts \cup SimpleDicts \cup {Advanced(PyStr(F_id), PyInt(25))}

RECURSIVE SeqsUpTo(_, _)
SeqsUpTo(S, n) ==
    IF n = 0 THEN {<<>>}
    ELSE LET shorter == SeqsUpTo(S, n - 1)
         IN  shorter \cup {Append(q, e) : q \in shorter, e \in S}

\* filters: None, a lone raw predicate, a lone map, or a sequence of them.
Arguments(c) ==
    {PyNone} \cup Elements(c) \cup {PyList(q) : q \in SeqsUpTo(Elements(c), MaxLen)}

(***************************************************************************)
(* BaseFilterConverter.convert, one step of its loop at a time             *)
(***************************************************************************)
Init ==
    /\ cls \in Classes
    /\ model \in Models
    /\ arg \in Arguments(cls)
    /\ filters = arg
    /\ idx = 0
    /\ result = <<>>
    /\ check = NoValue
    /\ pc = "call"
    /\ ret = NoValue
    /\ exc = NoExc
    /\ validated = <<>>
    /\ built = <<>>
    /\ call = [fn |-> "convert"]
    /\ stmt = NoValue
    /\ loaders = <<>>
    /\ log = <<>>
    /\ uow = NoValue /\ sessions = <<>> /\ procs = <<>> /\ mappings = NoValue

\* result = []; the None case; the wrapping of a lone filter.
Enter ==
    /\ pc = "call"
    /\ result' = <<>>
    /\ IF filters = PyNone
       THEN /\ ret' = PyList(<<>>)
            /\ pc' = "returned"
            /\ UNCHANGED <<filters, idx>>
       ELSE /\ filters' = WrapFilters(filters)
            /\ idx' = 1
            /\ pc' = "loop"
            /\ UNCHANGED ret
    /\ UNCHANGED <<cls, model, arg, check, exc, validated, built>>
    /\ UNCHANGED <<callVars, otherVars>>

\* A raw predicate is appended as it is.
PassRaw ==
    /\ pc = "loop"
    /\ idx <= Len(filters.items)
    /\ filters.items[idx].py = "ColumnElement"
    /\ result' = Append(result, filters.items[idx])
    /\ idx' = idx + 1
    /\ UNCHANGED <<cls, model, arg, filters, check, pc, ret, exc, validated, built>>
    /\ UNCHANGED <<callVars, otherVars>>

\* is_valid, message = cls._is_filter_valid(model, filter_)
Validate ==
    /\ pc = "loop"
    /\ idx <= Len(filters.items)
    /\ filters.items[idx].py # "ColumnElement"
    /\ check' = is_filter_valid(cls, model, filters.items[idx])
    /\ validated' = Append(validated, idx)
    /\ pc' = "checked"
    /\ UNCHANGED <<cls, model, arg, filters, idx, result, ret, exc, built>>
    /\ UNCHANGED <<callVars, otherVars>>

\* if not is_valid: raise FilterError(msg)
RaiseInvalid ==
    /\ pc = "checked"
    /\ ~check.is_valid
    /\ exc' = FilterNotValid(filters.items[idx], check.message)
    /\ pc' = "raised"
    /\ UNCHANGED <<cls, model, arg, filters, idx, result, check, ret, validated, built>>
    /\ UNCHANGED <<callVars, otherVars>>

\* result.extend(cls._convert_filter(model, filter_))
Translate ==
    /\ pc = "checked"
    /\ check.is_valid
    /\ built' = Append(built, idx)
    /\ LET out == convert_filter(cls, model, filters.items[idx])
       IN  IF out.exc = NoExc
           THEN /\ result' = ExtendResult(result, out.value)
                /\ idx' = idx + 1
                /\ pc' = "loop"
                /\ UNCHANGED exc
           ELSE /\ exc' = out.exc
                /\ pc' = "raised"
                /\ UNCHANGED <<result, idx>>
    /\ UNCHANGED <<cls, model, arg, filters, check, ret, validated>>
    /\ UNCHANGED <<callVars, otherVars>>

\* return result
Return ==
    /\ pc = "loop"
    /\ idx > Len(filters.items)
    /\ ret' = PyList(result)
    /\ pc' = "returned"
    /\ UNCHANGED <<cls, model, arg, filters, idx, result, check, exc, validated, built>>
    /\ UNCHANGED <<callVars, otherVars>>

Next == Enter \/ PassRaw \/ Validate \/ RaiseInvalid \/ Translate \/ Return

Spec == Init /\ [][Next]_vars

\* The loop of convert over a sequence, from position i with result res, as a
\* function of its arguments.
RECURSIVE convert_from(_, _, _, _, _)
convert_from(c, m, items, i, res) ==
    IF i > Len(items) THEN Returned(PyList(res))
    ELSE LET filter_ == items[i]
         IN  IF filter_.py = "ColumnElement"
             THEN convert_from(c, m, items, i + 1, Append(res, filter_))
             ELSE LET verdict == is_filter_valid(c, m, filter_)
                      out == convert_filter(c, m, filter_)
                  IN  IF ~verdict.is_valid
                      THEN Raised(FilterNotValid(filter_, verdict.message))
                      ELSE IF out.exc # NoExc THEN Raised(out.exc)
                      ELSE convert_from(c, m, items, i + 1, ExtendResult(res, out.value))

(***************************************************************************)
(* The operator functions called on their own (filters/operators.py)       *)
(***************************************************************************)
\* Longest tuple or list handed to an operator as its value.
MaxValueLen == 3

\* Every function object the two lookup mappings hold.
OperatorFunctions ==
    {Advanced_lookup_mapping[k] : k \in DOMAIN Advanced_lookup_mapping}
    \cup {Django_lookup_mapping[k] : k \in DOMAIN Django_lookup_mapping}

\* The queryable attributes of the two models.
Attributes ==
    UNION {{get_sqlalchemy_field(m, f) : f \in Columns(m) \cup HybridProperties(m)} :
               m \in Models}

\* Values without a length, strings (one of them holding a wildcard
\* character), and tuples and lists of up to MaxValueLen elements.
UnsizedValues == {PyNone, PyInt(25), PyBool(TRUE), PyBool(FALSE)}
StrValues == {V_abc, PyStr(<<>>), PyStr(<<"50%">>), PyStr(<<"A", "_", "b">>)}
SizedValues ==
    {PyTuple(q) : q \in SeqsUpTo({PyInt(1), PyInt(2)}, MaxValueLen)}
    \cup {PyList(q) : q \in SeqsUpTo({PyInt(1), PyInt(2)}, MaxValueLen)}

\* The values b an operator function is called with.
OperatorValues(func) ==
    CASE func \in {"between", "django_range"} -> SizedValues \cup UnsizedValues
      [] func = "contains" -> SizedValues
      [] func = "django_isnull" -> {PyBool(TRUE), PyBool(FALSE)}
      [] func \in {"django_regex", "django_iregex"} -> StrValues
      [] OTHER -> UnsizedValues \cup StrValues

HasLen(b) == b.py \in {"tuple", "list"}

TypeErrorNoLen(b) == [type |-> "TypeError", text |-> "object has no len()", of |-> b.py]

\* func(a, b) as a call that returns or raises: len(b) of between raises
\* TypeError for a value without a length.
Invoke(func, a, b) ==
    IF func \in {"between", "django_range"} /\ ~HasLen(b)
    THEN Raised(TypeErrorNoLen(b))
    ELSE Returned(Call(func, a, b))

InitOperators ==
    /\ call \in {[fn |-> f, a |-> a, b |-> b] :
                    f \in OperatorFunctions, a \in Attributes,
                    b \in UnsizedValues \cup StrValues \cup SizedValues}
    /\ call.b \in OperatorValues(call.fn)
    /\ pc = "call"
    /\ ret = NoValue
    /\ exc = NoExc
    /\ cls = NoValue /\ model = NoValue /\ arg = NoValue /\ filters = NoValue
    /\ idx = 0 /\ result = <<>> /\ check = NoValue
    /\ validated = <<>> /\ built = <<>>
    /\ stmt = NoValue /\ loaders = <<>> /\ log = <<>>
    /\ uow = NoValue /\ sessions = <<>> /\ procs = <<>> /\ mappings = NoValue

\* The call of the function on its two arguments.
CallOperator ==
    /\ pc = "call"
    /\ call.fn \in OperatorFunctions
    /\ LET out == Invoke(call.fn, call.a, call.b)
       IN  IF out.exc = NoExc
           THEN ret' = out.value /\ pc' = "returned" /\ UNCHANGED exc
           ELSE exc' = out.exc /\ pc' = "raised" /\ UNCHANGED ret
    /\ UNCHANGED <<convertVars, otherVars, callVars>>

NextOperators == CallOperator

SpecOperators == InitOperators /\ [][NextOperators]_vars

(***************************************************************************)
(* cls._convert_filter(model, filter_) called directly, with no call of    *)
(* _is_filter_valid before it                                              *)
(***************************************************************************)
\* The field names the map names, as class c reads it.
NamedFields(c, d) ==
    CASE c = "SimpleFilterConverter" -> Keys(d)
      [] c = "AdvancedOperatorFilterConverter" ->
             IF HasKey(d, <<"field">>) /\ Get(d, <<"field">>).py = "str"
             THEN {Get(d, <<"field">>).s} ELSE {}
      [] c = "DjangoLikeFilterConverter" -> {Split(k)[1] : k \in Keys(d)}

\* The maps a caller hands over. A map naming a relationship is left out: what
\* an operator gives on a relationship attribute is decided by sqlalchemy's
\* relationship comparator, which validation keeps the converters away from.
InitDirect ==
    /\ cls \in Classes
    /\ model \in Models
    /\ arg \in {e \in Elements(cls) : e.py = "dict"}
    /\ NamedFields(cls, arg) \cap Relationships(model) = {}
    /\ filters = arg
    /\ call = [fn |-> "_convert_filter"]
    /\ pc = "call"
    /\ ret = NoValue
    /\ exc = NoExc
    /\ idx = 0 /\ result = <<>> /\ check = NoValue
    /\ validated = <<>> /\ built = <<>>
    /\ stmt = NoValue /\ loaders = <<>> /\ log = <<>>
    /\ uow = NoValue /\ sessions = <<>> /\ procs = <<>> /\ mappings = NoValue

ConvertFilterDirect ==
    /\ pc = "call"
    /\ call.fn = "_convert_filter"
    /\ LET out == convert_filter(cls, model, arg)
       IN  IF out.exc = NoExc
           THEN ret' = PyList(out.value) /\ pc' = "returned" /\ UNCHANGED exc
           ELSE exc' = out.exc /\ pc' = "raised" /\ UNCHANGED ret
    /\ UNCHANGED <<cls, model, arg, filters, idx, result, check, validated, built>>
    /\ UNCHANGED <<callVars, otherVars>>

NextDirect == ConvertFilterDirect

SpecDirect == InitDirect /\ [][NextDirect]_vars

(***************************************************************************)
(* apply_loads and apply_joins (utils.py), and the load resolution of the  *)
(* query builder on top of apply_loads                                     *)
(***************************************************************************)
\* Longest list of relationship names a caller passes.
MaxNames == 2

\* select(*entities): a Select with the joins, the options and the where
\* clauses added so far.
Select(entities) ==
    [py |-> "Select", entities |-> entities, joins |-> <<>>, options |-> <<>>,
     where |-> <<>>]

\* Faulty variant of Select.join: the flags are dropped.
join_flags_dropped(s, target, isouter, full) ==
    [s EXCEPT !.joins = Append(@, [target |-> target, isouter |-> FALSE, full |-> FALSE])]

\* Select.join(target, isouter=..., full=...)
join(s, target, isouter, full) ==
    [s EXCEPT !.joins = Append(@, [target |-> target, isouter |-> isouter, full |-> full])]

\* Select.options(*loaders)
options(s, loaders_) == [s EXCEPT !.options = @ \o loaders_]

\* joinedload, selectinload, subqueryload: the callables given as load_strategy.
LoadStrategies == {"joinedload", "selectinload", "subqueryload"}

\* Faulty variant: the default strategy is used whatever was asked for.
load_strategy_default_only(strategy, attribute) ==
    [py |-> "Load", strategy |-> "joinedload", path |-> attribute]

load_strategy(strategy, attribute) ==
    [py |-> "Load", strategy |-> strategy, path |-> attribute]

get_model_classes_from_statement(s) == s.entities

get_valid_relationships_names(m) == Relationships(m)

Max(S) == CHOOSE x \in S : \A y \in S : x >= y

\* Faulty variant: the loop stops at the first model that has the relationship.
resolve_relationship_first_match(model_classes, relationship_) ==
    LET having == {i \in 1..Len(model_classes) :
                      relationship_ \in get_valid_relationships_names(model_classes[i])}
    IN  IF having = {} THEN PyNone
        ELSE get_sqlalchemy_field(model_classes[Min(having)], relationship_)

\* The inner loop over model_classes: the last model that has the relationship
\* gives the attribute, None when no model has it.
resolve_relationship(model_classes, relationship_) ==
    LET having == {i \in 1..Len(model_classes) :
                      relationship_ \in get_valid_relationships_names(model_classes[i])}
    IN  IF having = {} THEN PyNone
        ELSE get_sqlalchemy_field(model_classes[Max(having)], relationship_)

\* The record logger.warning(msg) leaves.
RelationshipNotFoundWarning(relationship_, model_classes) ==
    [level |-> "WARNING", text |-> "SQLAlchemy relationship was not found",
     relationship |-> relationship_, model_classes |-> model_classes]

\* The loop of apply_loads from position i.
RECURSIVE apply_loads_from(_, _, _, _, _)
apply_loads_from(model_classes, relationship_names, strategy, i, loaders_) ==
    IF i > Len(relationship_names) THEN loaders_
    ELSE LET sqlalchemy_relationship ==
                 resolve_relationship(model_classes, relationship_names[i])
         IN  IF sqlalchemy_relationship = PyNone
             THEN apply_loads_from(model_classes, relationship_names, strategy, i + 1,
                                   loaders_)
             ELSE apply_loads_from(model_classes, relationship_names, strategy, i + 1,
                                   Append(loaders_,
                                          load_strategy(strategy, sqlalchemy_relationship)))

\* apply_loads: the statement returned, its loaders and what was logged.
apply_loads(s, relationship_names, strategy) ==
    LET built_loaders == apply_loads_from(get_model_classes_from_statement(s),
                                          relationship_names, strategy, 1, <<>>)
    IN  [stmt |-> options(s, built_loaders), loaders |-> built_loaders, log |-> <<>>]

\* The loop of apply_joins from position i.
RECURSIVE apply_joins_from(_, _, _, _, _, _, _)
apply_joins_from(s, model_classes, relationship_names, left_outer_join, full_join, i, log_) ==
    IF i > Len(relationship_names) THEN [stmt |-> s, log |-> log_]
    ELSE LET relationship_ == relationship_names[i]
             sqlalchemy_relationship == resolve_relationship(model_classes, relationship_)
         IN  IF sqlalchemy_relationship = PyNone
             THEN apply_joins_from(s, model_classes, relationship_names, left_outer_join,
                                   full_join, i + 1,
                                   Append(log_, RelationshipNotFoundWarning(relationship_,
                                                                            model_classes)))
             ELSE apply_joins_from(join(s, sqlalchemy_relationship, left_outer_join,
                                        full_join),
                                   model_classes, relationship_names, left_outer_join,
                                   full_join, i + 1, log_)

apply_joins(s, relationship_names, left_outer_join, full_join) ==
    apply_joins_from(s, get_model_classes_from_statement(s), relationship_names,
                     left_outer_join, full_join, 1, <<>>)

\* BaseQuery._resolve_and_apply_loads: a lone name is a list of one name; the
\* names are resolved as apply_loads resolves them, with the configured
\* strategy, and an unresolved name is skipped.
resolve_and_apply_loads(s, loads, strategy) ==
    apply_loads(s, IF loads.py = "str" THEN <<loads.s>> ELSE loads.items, strategy)

F_my_model == <<"my", "_", "model">>
F_wrong_relation_name == <<"wrong", "_", "relation", "_", "name">>

\* Relationship names of the two models, a name no model has, a column name.
RelationshipNames == {F_other_models, F_my_model, F_wrong_relation_name, F_id}

\* select(), select(MyModel), select(OtherModel) and the selects of both; and
\* selects with ChildModel, a second model mapped like OtherModel, whose
\* relationship to MyModel is called my_model too.
Statements ==
    {Select(<<>>), Select(<<"MyModel">>), Select(<<"OtherModel">>),
     Select(<<"MyModel", "OtherModel">>), Select(<<"OtherModel", "MyModel">>),
     Select(<<"OtherModel", "ChildModel">>), Select(<<"ChildModel", "OtherModel">>),
     Select(<<"ChildModel", "MyModel", "OtherModel">>)}

Calls ==
    {[fn |-> "apply_loads", stmt |-> s, relationship_names |-> n, load_strategy |-> l] :
         s \in Statements, n \in SeqsUpTo(RelationshipNames, MaxNames), l \in LoadStrategies}
    \cup {[fn |-> "apply_joins", stmt |-> s, relationship_names |-> n,
           left_outer_join |-> o, full_join |-> f] :
              s \in Statements, n \in SeqsUpTo(RelationshipNames, MaxNames),
              o \in BOOLEAN, f \in BOOLEAN}
    \cup {[fn |-> "_resolve_and_apply_loads", stmt |-> s, loads |-> n, load_strategy |-> l] :
              s \in Statements,
              n \in {PyStr(r) : r \in RelationshipNames}
                    \cup {PyList(q) : q \in SeqsUpTo(RelationshipNames, MaxNames)},
              l \in LoadStrategies}

InitRelations ==
    /\ call \in Calls
    /\ stmt = call.stmt
    /\ loaders = <<>>
    /\ log = <<>>
    /\ pc = "call"
    /\ ret = NoValue
    /\ exc = NoExc
    /\ cls = NoValue /\ model = NoValue /\ arg = NoValue /\ filters = NoValue
    /\ idx = 0 /\ result = <<>> /\ check = NoValue
    /\ validated = <<>> /\ built = <<>>
    /\ uow = NoValue /\ sessions = <<>> /\ procs = <<>> /\ mappings = NoValue

ApplyLoads ==
    /\ pc = "call"
    /\ call.fn = "apply_loads"
    /\ LET out == apply_loads(call.stmt, call.relationship_names, call.load_strategy)
       IN  /\ stmt' = out.stmt
           /\ loaders' = out.loaders
           /\ log' = log \o out.log
           /\ ret' = out.stmt
    /\ pc' = "returned"
    /\ UNCHANGED <<convertVars, otherVars, call, exc>>

ApplyJoins ==
    /\ pc = "call"
    /\ call.fn = "apply_joins"
    /\ LET out == apply_joins(call.stmt, call.relationship_names, call.left_outer_join,
                              call.full_join)
       IN  /\ stmt' = out.stmt
           /\ log' = log \o out.log
           /\ ret' = out.stmt
    /\ pc' = "returned"
    /\ UNCHANGED <<convertVars, otherVars, call, loaders, exc>>

ResolveAndApplyLoads ==
    /\ pc = "call"
    /\ call.fn = "_resolve_and_apply_loads"
    /\ LET out == resolve_and_apply_loads(call.stmt, call.loads, call.load_strategy)
       IN  /\ stmt' = out.stmt
           /\ loaders' = out.loaders
           /\ log' = log \o out.log
           /\ ret' = out.stmt
    /\ pc' = "returned"
    /\ UNCHANGED <<convertVars, otherVars, call, exc>>

NextRelations == ApplyLoads \/ ApplyJoins \/ ResolveAndApplyLoads

SpecRelations == InitRelations /\ [][NextRelations]_vars

(***************************************************************************)
(* The disable statement of the query builder:                             *)
(* BaseQuery._disable_items_stmt                                           *)
(***************************************************************************)
\* Largest id of the id sets, and latest reading of the clock.
MaxId == 3
MaxInstant == 2

PySet(elements) == [py |-> "set", elements |-> elements]
PyDatetime(t) == [py |-> "datetime", utc |-> t]

ValueErrorEmptyIds ==
    [type |-> "ValueError",
     text |-> "Parameter \"ids_to_disable\" should contains at least one element."]

TypeErrorFieldType(field_type) ==
    [type |-> "TypeError", text |-> "unsupported disable field type", field_type |-> field_type]

\* The classes a disable field may be declared with.
SupportedFieldTypes == {"bool", "datetime"}

\* Faulty variant: the id set is not looked at.
DisablePreconditionFaults_type_only(ids_to_disable, field_type) ==
    IF field_type \notin SupportedFieldTypes THEN {TypeErrorFieldType(field_type)} ELSE {}

\* The preconditions that do not hold: an empty id set is a value fault, a
\* field type that is neither bool nor datetime a type fault. Which of the two
\* is reported when both hold is not fixed.
DisablePreconditionFaults(ids_to_disable, field_type) ==
    (IF ids_to_disable = {} THEN {ValueErrorEmptyIds} ELSE {})
    \cup (IF field_type \notin SupportedFieldTypes THEN {TypeErrorFieldType(field_type)}
          ELSE {})

\* The rows not disabled yet: the flag is not True, the timestamp is not set.
not_disabled_yet(c) ==
    IF c.field_type = "bool" THEN is_not(c.disable_field, PyBool(TRUE))
    ELSE is_(c.disable_field, PyNone)

\* The filter converter of the query class on the extra filters, a lone map:
\* SimpleFilterConverter.convert(model, extra_filters).
convert_extra_filters(m, extra_filters) ==
    LET verdict == Simple_is_filter_valid(m, extra_filters)
        out == Simple_convert_filter(m, extra_filters)
    IN  IF ~verdict.is_valid THEN Raised(FilterNotValid(extra_filters, verdict.message))
        ELSE IF out.exc # NoExc THEN Raised(out.exc)
        ELSE Returned(PyList(ExtendResult(<<>>, out.value)))

\* Faulty variant: the exclusion is added whatever allow_filter_by_value is.
make_disable_filters_always_by_value(c) ==
    LET extra == IF c.extra_filters = PyNone THEN Returned(PyList(<<>>))
                 ELSE convert_extra_filters(c.model, c.extra_filters)
    IN  IF extra.exc # NoExc THEN Raised(extra.exc)
        ELSE Returned(<<contains(c.id_field, PySet(c.ids_to_disable)), not_disabled_yet(c)>>
                      \o extra.value.items)

\* BaseQuery._make_disable_filters: id_field IN ids, then the rows not
\* disabled yet when allow_filter_by_value is set, then the extra filters.
make_disable_filters(c) ==
    LET by_ids == <<contains(c.id_field, PySet(c.ids_to_disable))>>
        by_value == IF c.allow_filter_by_value THEN <<not_disabled_yet(c)>> ELSE <<>>
        extra == IF c.extra_filters = PyNone THEN Returned(PyList(<<>>))
                 ELSE convert_extra_filters(c.model, c.extra_filters)
    IN  IF extra.exc # NoExc THEN Raised(extra.exc)
        ELSE Returned(by_ids \o by_value
                      \o extra.value.items)

\* Faulty variant: a timestamp field is set to True as a bool field is.
disable_value_always_true(c) == PyBool(TRUE)

\* The value the disable field is set to: True, or the current UTC instant.
disable_value(c) == IF c.field_type = "bool" THEN PyBool(TRUE) ELSE PyDatetime(c.now)

\* UPDATE model SET disable_field = (True | now) WHERE the disable filters.
disable_items_stmt(c) ==
    LET disable_filters == make_disable_filters(c)
    IN  IF disable_filters.exc # NoExc THEN Raised(disable_filters.exc)
        ELSE Returned([py |-> "Update", entity |-> c.model,
                       where |-> disable_filters.value,
                       values |-> <<Item(c.disable_field, disable_value(c))>>])

DisableCalls ==
    {[fn |-> "_disable_items_stmt", model |-> "MyModel", ids_to_disable |-> ids,
      id_field |-> get_sqlalchemy_field("MyModel", F_id), disable_field |-> d,
      field_type |-> t, allow_filter_by_value |-> a, extra_filters |-> x, now |-> n] :
         ids \in SUBSET (1..MaxId),
         d \in {get_sqlalchemy_field("MyModel", <<"bl">>), get_sqlalchemy_field("MyModel", F_dt)},
         t \in {"bool", "datetime", "str", "int"},
         a \in BOOLEAN,
         x \in {PyNone, PyDict(<<Item(F_name, V_abc)>>)},
         n \in 1..MaxInstant}

InitDisable ==
    /\ call \in DisableCalls
    /\ pc = "call"
    /\ ret = NoValue
    /\ exc = NoExc
    /\ cls = NoValue /\ model = NoValue /\ arg = NoValue /\ filters = NoValue
    /\ idx = 0 /\ result = <<>> /\ check = NoValue
    /\ validated = <<>> /\ built = <<>>
    /\ stmt = NoValue /\ loaders = <<>> /\ log = <<>>
    /\ uow = NoValue /\ sessions = <<>> /\ procs = <<>> /\ mappings = NoValue

\* A precondition does not hold: the call raises and builds nothing.
RejectDisable ==
    /\ pc = "call"
    /\ call.fn = "_disable_items_stmt"
    /\ \E fault \in DisablePreconditionFaults(call.ids_to_disable, call.field_type) :
          exc' = fault
    /\ pc' = "raised"
    /\ UNCHANGED <<convertVars, otherVars, callVars, ret>>

\* Both preconditions hold: the statement is built and returned.
BuildDisableStatement ==
    /\ pc = "call"
    /\ call.fn = "_disable_items_stmt"
    /\ DisablePreconditionFaults(call.ids_to_disable, call.field_type) = {}
    /\ LET out == disable_items_stmt(call)
       IN  IF out.exc = NoExc
           THEN ret' = out.value /\ stmt' = out.value /\ pc' = "returned" /\ UNCHANGED exc
           ELSE exc' = out.exc /\ pc' = "raised" /\ UNCHANGED <<ret, stmt>>
    /\ UNCHANGED <<convertVars, otherVars, call, loaders, log>>

NextDisable == RejectDisable \/ BuildDisableStatement

SpecDisable == InitDisable /\ [][NextDisable]_vars

(***************************************************************************)
(* Search of the query builder: BaseQuery._make_search_filter and the      *)
(* search part of BaseQuery._get_item_list_stmt                            *)
(***************************************************************************)
\* Longest list of search-by fields.
MaxSearchBy == 2

\* or_(*clauses) / and_(*clauses)
BooleanClauseList(operator, clauses) ==
    [py |-> "BooleanClauseList", operator |-> operator, clauses |-> clauses]

\* Select.where(clause)
where(s, clause) == [s EXCEPT !.where = Append(@, clause)]

\* A search-by field given by name is looked up on the model.
search_field(m, field) ==
    IF field.py = "str" THEN get_sqlalchemy_field(m, field.s) ELSE field

\* Faulty variant: the clauses are combined with OR whatever was asked for.
make_search_filter_or_only(search, m, search_by_args, use_and_clause) ==
    BooleanClauseList("OR",
        [i \in 1..Len(search_by_args) |->
            ilike(search_field(m, search_by_args[i]),
                  PyStr(Concat(<<"%">>, Concat(search.s, <<"%">>))))])

\* One field ILIKE '%search%' per search-by field, under OR, or under AND
\* when use_and_clause is set.
make_search_filter(search, m, search_by_args, use_and_clause) ==
    BooleanClauseList(IF use_and_clause THEN "AND" ELSE "OR",
        [i \in 1..Len(search_by_args) |->
            ilike(search_field(m, search_by_args[i]),
                  PyStr(Concat(<<"%">>, Concat(search.s, <<"%">>))))])

\* The list statement of a model with search and search_by only: the search
\* filter is added when both a term and at least one field are given.
get_item_list_stmt(m, search, search_by) ==
    IF search = PyNone \/ search_by = PyNone \/ search_by.items = <<>>
    THEN Select(<<m>>)
    ELSE where(Select(<<m>>), make_search_filter(search, m, search_by.items, FALSE))

\* Fields given as references and as names.
SearchFields ==
    {get_sqlalchemy_field("MyModel", F_name),
     get_sqlalchemy_field("MyModel", <<"other", "_", "name">>),
     PyStr(F_name), PyStr(<<"other", "_", "name">>)}

SearchTerms == {PyStr(<<"value">>), PyStr(<<"some", "_", "value">>)}

SearchCalls ==
    {[fn |-> "_make_search_filter", search |-> t, model |-> "MyModel",
      search_by_args |-> q, use_and_clause |-> u] :
         t \in SearchTerms, q \in SeqsUpTo(SearchFields, MaxSearchBy) \ {<<>>},
         u \in BOOLEAN}
    \cup {[fn |-> "_get_item_list_stmt", model |-> "MyModel", search |-> t, search_by |-> b] :
              t \in SearchTerms \cup {PyNone},
              b \in {PyNone} \cup {PyTuple(q) : q \in SeqsUpTo(SearchFields, MaxSearchBy)}}

InitSearch ==
    /\ call \in SearchCalls
    /\ pc = "call"
    /\ ret = NoValue
    /\ exc = NoExc
    /\ cls = NoValue /\ model = NoValue /\ arg = NoValue /\ filters = NoValue
    /\ idx = 0 /\ result = <<>> /\ check = NoValue
    /\ validated = <<>> /\ built = <<>>
    /\ stmt = NoValue /\ loaders = <<>> /\ log = <<>>
    /\ uow = NoValue /\ sessions = <<>> /\ procs = <<>> /\ mappings = NoValue

MakeSearchFilter ==
    /\ pc = "call"
    /\ call.fn = "_make_search_filter"
    /\ ret' = make_search_filter(call.search, call.model, call.search_by_args,
                                 call.use_and_clause)
    /\ pc' = "returned"
    /\ UNCHANGED <<convertVars, otherVars, callVars, exc>>

GetItemListStmt ==
    /\ pc = "call"
    /\ call.fn = "_get_item_list_stmt"
    /\ stmt' = get_item_list_stmt(call.model, call.search, call.search_by)
    /\ ret' = stmt'
    /\ pc' = "returned"
    /\ UNCHANGED <<convertVars, otherVars, call, loaders, log, exc>>

NextSearch == MakeSearchFilter \/ GetItemListStmt

SpecSearch == InitSearch /\ [][NextSearch]_vars

(***************************************************************************)
(* Repositories: BaseAsyncRepository.disable and BaseSyncRepository.disable *)
(***************************************************************************)
RepositoryAttributeError ==
    [type |-> "RepositoryAttributeError",
     text |-> "Attribute \"disable_id_field\" or \"disable_field\" or \"disable_field_type\" not set in your repository class. Can't disable entities."]

\* disable_field_type is a class or None; classes go by their names.
NoFieldType == "None"

\* BaseRepository._validate_disable_attributes: the fault raised, if any.
validate_disable_attributes(repo) ==
    IF \/ repo.disable_id_field = PyNone
       \/ repo.disable_field = PyNone
       \/ repo.disable_field_type = NoFieldType
    THEN {RepositoryAttributeError}
    ELSE {}

\* The keyword arguments disable hands to queries.disable_items.
disable_items_call(c) ==
    [fn |-> "disable_items", model |-> c.model_class,
     ids_to_disable |-> c.ids_to_disable,
     id_field |-> c.disable_id_field,
     disable_field |-> c.disable_field,
     field_type |-> c.disable_field_type,
     allow_filter_by_value |-> c.allow_disable_filter_by_value,
     extra_filters |-> c.extra_filters,
     use_flush |-> c.use_flush]

\* What queries.disable_items may answer: a precondition fault, or the count
\* of the rows updated; with a field that is None, that or an attribute fault
\* on None.
disable_items(d) ==
    LET faults == DisablePreconditionFaults(d.ids_to_disable, d.field_type)
        counts == {Returned(PyInt(n)) : n \in 0..Cardinality(d.ids_to_disable)}
    IN  IF d.id_field = PyNone \/ d.disable_field = PyNone
        THEN (IF faults # {} THEN {Raised(e) : e \in faults} ELSE counts)
             \cup {Raised(AttributeError("NoneType", <<"in", "_">>))}
        ELSE IF faults # {} THEN {Raised(e) : e \in faults}
        ELSE counts

\* BaseAsyncRepository.disable: validate, then delegate.
async_disable(c) ==
    IF validate_disable_attributes(c) # {}
    THEN [outcomes |-> {Raised(e) : e \in validate_disable_attributes(c)},
          delegated |-> <<>>]
    ELSE [outcomes |-> disable_items(disable_items_call(c)),
          delegated |-> <<disable_items_call(c)>>]

\* BaseSyncRepository.disable: delegates at once.
sync_disable(c) ==
    [outcomes |-> disable_items(disable_items_call(c)),
     delegated |-> <<disable_items_call(c)>>]

RepositoryClasses == {"BaseAsyncRepository", "BaseSyncRepository"}

RepositoryCalls ==
    {[fn |-> "disable", repository |-> r, model_class |-> "MyModel",
      disable_id_field |-> i, disable_field |-> d, disable_field_type |-> t,
      allow_disable_filter_by_value |-> a, use_flush |-> TRUE,
      ids_to_disable |-> ids, extra_filters |-> x] :
         r \in RepositoryClasses,
         i \in {PyNone, get_sqlalchemy_field("MyModel", F_id)},
         d \in {PyNone, get_sqlalchemy_field("MyModel", <<"bl">>),
                get_sqlalchemy_field("MyModel", F_dt)},
         t \in {NoFieldType, "bool", "datetime"},
         a \in BOOLEAN,
         ids \in SUBSET (1..MaxId),
         x \in {PyNone, PyDict(<<Item(PyStr(F_name), PyStr(<<"abc">>))>>)}}

InitRepository ==
    /\ call \in RepositoryCalls
    /\ pc = "call"
    /\ ret = NoValue
    /\ exc = NoExc
    /\ cls = NoValue /\ model = NoValue /\ arg = NoValue /\ filters = NoValue
    /\ idx = 0 /\ result = <<>> /\ check = NoValue
    /\ validated = <<>> /\ built = <<>>
    /\ stmt = NoValue /\ loaders = <<>> /\ log = <<>>
    /\ uow = NoValue /\ sessions = <<>> /\ procs = <<>> /\ mappings = NoValue

\* The call ends with one of the outcomes; what was delegated is logged.
Finish(d) ==
    /\ log' = log \o d.delegated
    /\ \E o \in d.outcomes :
          IF o.exc # NoExc
          THEN pc' = "raised" /\ exc' = o.exc /\ ret' = ret
          ELSE pc' = "returned" /\ ret' = o.value /\ exc' = exc
    /\ UNCHANGED <<convertVars, otherVars, call, stmt, loaders>>

AsyncDisable ==
    /\ pc = "call"
    /\ call.repository = "BaseAsyncRepository"
    /\ Finish(async_disable(call))

SyncDisable ==
    /\ pc = "call"
    /\ call.repository = "BaseSyncRepository"
    /\ Finish(sync_disable(call))

NextRepository == AsyncDisable \/ SyncDisable

SpecRepository == InitRepository /\ [][NextRepository]_vars

(***************************************************************************)
(* Unit of work: BaseUnitOfWork as an async context manager, and its       *)
(* commit, rollback and close called directly                              *)
(***************************************************************************)
\* Sessions one unit of work opens, and session calls it makes directly.
MaxSessions == 2
MaxCalls == 3

AsyncSession(id) == [py |-> "AsyncSession", id |-> id]

\* What a session method or the block of the async with raises.
SessionError(method) == [type |-> "SQLAlchemyError", method |-> method]
BlockError == [type |-> "Exception", text |-> "raised by the block"]

\* The session methods that may fail.
FailingMethods == {"commit", "rollback"}

SessionCall(session, method) == [session |-> session.id, method |-> method]

\* commit / rollback / close of the unit of work: self.session is read (an
\* instance that has no such attribute raises), a falsy one returns, else the
\* session's method of the same name is awaited.
uow_method(u, method, failing) ==
    IF u.session = NoValue
    THEN [calls |-> <<>>, exc |-> AttributeError("BaseUnitOfWork", <<"session">>)]
    ELSE IF u.session = PyNone
    THEN [calls |-> <<>>, exc |-> NoExc]
    ELSE [calls |-> <<SessionCall(u.session, method)>>,
          exc |-> IF method \in failing THEN SessionError(method) ELSE NoExc]

\* __aexit__: rollback (after logging the error) or commit, then close; it
\* returns None, so the exception of the block goes on.
aexit(u, block_exc, failing) ==
    LET logged == IF block_exc # NoExc
                  THEN <<[level |-> "error", msg |-> "UNIT-OF-WORK E0: %s",
                          args |-> <<block_exc>>]>>
                  ELSE <<>>
        first == uow_method(u, IF block_exc # NoExc THEN "rollback" ELSE "commit", failing)
        last == uow_method(u, "close", failing)
    IN  IF first.exc # NoExc
        THEN [calls |-> logged \o first.calls, exc |-> first.exc]
        ELSE [calls |-> logged \o first.calls \o last.calls,
              exc |-> IF last.exc # NoExc THEN last.exc ELSE block_exc]

\* The sessions after the calls: close, when it does not fail, closes.
after_calls(ss, calls, failing) ==
    [i \in 1..Len(ss) |->
        IF \E j \in 1..Len(calls) :
              /\ "method" \in DOMAIN calls[j]
              /\ calls[j].method = "close" /\ calls[j].session = i
              /\ "close" \notin failing
        THEN "closed" ELSE ss[i]]

\* A subclass gives session_factory and init_repositories; it may or may not
\* declare a session attribute of its own.
InitUow ==
    /\ uow \in {[session |-> x, repositories |-> NoValue] : x \in {NoValue, PyNone}}
    /\ sessions = <<>>
    /\ log = <<>>
    /\ pc = "idle"
    /\ call = [fn |-> "__init__"]
    /\ ret = NoValue
    /\ exc = NoExc
    /\ cls = NoValue /\ model = NoValue /\ arg = NoValue /\ filters = NoValue
    /\ idx = 0 /\ result = <<>> /\ check = NoValue
    /\ validated = <<>> /\ built = <<>>
    /\ stmt = NoValue /\ loaders = <<>>
    /\ procs = <<>> /\ mappings = NoValue

AEnter ==
    /\ pc = "idle"
    /\ Len(sessions) < MaxSessions
    /\ sessions' = Append(sessions, "open")
    /\ uow' = [session |-> AsyncSession(Len(sessions) + 1),
               repositories |-> AsyncSession(Len(sessions) + 1)]
    /\ call' = [fn |-> "__aenter__"]
    /\ ret' = uow'
    /\ exc' = NoExc
    /\ pc' = "block"
    /\ UNCHANGED <<convertVars, stmt, loaders, log, procs, mappings>>

\* The block of the async with ends, normally or with an exception.
Block ==
    /\ pc = "block"
    /\ exc' \in {NoExc, BlockError}
    /\ pc' = "exit"
    /\ UNCHANGED <<convertVars, callVars, ret, otherVars>>

AExit ==
    /\ pc = "exit"
    /\ \E failing \in SUBSET FailingMethods :
          LET out == aexit(uow, exc, failing)
          IN  /\ log' = log \o out.calls
              /\ sessions' = after_calls(sessions, out.calls, failing)
              /\ exc' = out.exc
              /\ call' = [fn |-> "__aexit__", exc |-> exc, session |-> uow.session,
                          at |-> Len(log)]
    /\ ret' = PyNone
    /\ pc' = "idle"
    /\ UNCHANGED <<convertVars, stmt, loaders, uow, procs, mappings>>

\* commit, rollback or close called on the unit of work outside __aexit__.
Direct(method) ==
    /\ pc = "idle"
    /\ Len(log) < MaxCalls
    /\ \E failing \in SUBSET FailingMethods :
          LET out == uow_method(uow, method, failing)
          IN  /\ log' = log \o out.calls
              /\ sessions' = after_calls(sessions, out.calls, failing)
              /\ exc' = out.exc
              /\ call' = [fn |-> method, entered |-> sessions # <<>>, at |-> Len(log)]
    /\ ret' = PyNone
    /\ UNCHANGED <<convertVars, stmt, loaders, uow, procs, mappings, pc>>

Commit == Direct("commit")

Rollback == Direct("rollback")

Close == Direct("close")

NextUow == AEnter \/ Block \/ AExit \/ Commit \/ Rollback \/ Close

SpecUow == InitUow /\ [][NextUow]_vars

(***************************************************************************)
(* BaseFilterConverter.convert called concurrently: every call has its own *)
(* locals; the classes' lookup_mapping tables and the filters objects the  *)
(* callers passed are what the calls have in common                        *)
(***************************************************************************)
\* Calls in flight at once.
MaxProcs == 2

Procs == 1..MaxProcs

\* cls.lookup_mapping of every converter class.
LookupMappings ==
    [c \in Classes |->
        CASE c = "SimpleFilterConverter" -> Simple_lookup_mapping
          [] c = "AdvancedOperatorFilterConverter" -> Advanced_lookup_mapping
          [] c = "DjangoLikeFilterConverter" -> Django_lookup_mapping]

\* The calls made at once; two callers may pass the same filters.
ConcurrentCalls ==
    {[cls |-> "SimpleFilterConverter", model |-> "MyModel", filters |-> PyNone],
     [cls |-> "SimpleFilterConverter", model |-> "MyModel",
      filters |-> PyList(<<eq(get_sqlalchemy_field("MyModel", F_id), PyInt(25)),
                           PyDict(<<Item(F_id, PyInt(25)), Item(F_name, V_abc)>>)>>)],
     [cls |-> "AdvancedOperatorFilterConverter", model |-> "MyModel",
      filters |-> AdvancedOp(PyStr(F_id), V_pair, PyStr(<<"between">>))],
     [cls |-> "AdvancedOperatorFilterConverter", model |-> "MyModel",
      filters |-> PyList(<<Advanced(PyStr(F_id), PyInt(25)),
                           Advanced(PyStr(F_wrong_field_name), V_abc)>>)],
     [cls |-> "DjangoLikeFilterConverter", model |-> "MyModel",
      filters |-> PyList(<<PyDict(<<Item(Lookup(F_name, <<"isnull">>), PyBool(FALSE)),
                                    Item(Lookup(F_id, <<"in">>), V_three)>>),
                           is_not(get_sqlalchemy_field("MyModel", F_name), PyNone)>>)],
     [cls |-> "DjangoLikeFilterConverter", model |-> "MyModel",
      filters |-> PyDict(<<Item(Lookup(F_id, <<"wrong", "_", "lookup">>), PyInt(25))>>)]}

\* Faulty variant: result is bound to the list a call in flight is filling.
new_result_shared(ps, p) ==
    LET others == {q \in DOMAIN ps : q # p /\ ps[q].pc \in {"loop", "checked"}}
    IN  IF others = {} THEN <<>> ELSE ps[CHOOSE q \in others : TRUE].result

\* result = []: a new list of the call's own.
new_result(ps, p) == <<>>

\* The locals of a call about to start.
Locals(c) ==
    [cls |-> c.cls, model |-> c.model, arg |-> c.filters, filters |-> c.filters,
     idx |-> 0, result |-> <<>>, check |-> NoValue, pc |-> "call",
     ret |-> NoValue, exc |-> NoExc]

InitConcurrent ==
    /\ call \in {[fn |-> "convert", args |-> a] : a \in [Procs -> ConcurrentCalls]}
    /\ procs = [p \in Procs |-> Locals(call.args[p])]
    /\ mappings = LookupMappings
    /\ pc = "call"
    /\ ret = NoValue
    /\ exc = NoExc
    /\ cls = NoValue /\ model = NoValue /\ arg = NoValue /\ filters = NoValue
    /\ idx = 0 /\ result = <<>> /\ check = NoValue
    /\ validated = <<>> /\ built = <<>>
    /\ stmt = NoValue /\ loaders = <<>> /\ log = <<>>
    /\ uow = NoValue /\ sessions = <<>>

\* A step of call p writes the locals of p and nothing else.
Write(p, locals) ==
    /\ procs' = [procs EXCEPT ![p] = locals]
    /\ UNCHANGED <<convertVars, callVars, pc, ret, exc, uow, sessions, mappings>>

EnterOf(p) ==
    LET l == procs[p]
    IN  /\ l.pc = "call"
        /\ Write(p, IF l.filters = PyNone
                    THEN [l EXCEPT !.result = new_result(procs, p),
                                   !.ret = PyList(new_result(procs, p)),
                                   !.pc = "returned"]
                    ELSE [l EXCEPT !.result = new_result(procs, p),
                                   !.filters = WrapFilters(l.filters),
                                   !.idx = 1, !.pc = "loop"])

PassRawOf(p) ==
    LET l == procs[p]
    IN  /\ l.pc = "loop"
        /\ l.idx <= Len(l.filters.items)
        /\ l.filters.items[l.idx].py = "ColumnElement"
        /\ Write(p, [l EXCEPT !.result = Append(@, l.filters.items[l.idx]),
                              !.idx = @ + 1])

ValidateOf(p) ==
    LET l == procs[p]
    IN  /\ l.pc = "loop"
        /\ l.idx <= Len(l.filters.items)
        /\ l.filters.items[l.idx].py # "ColumnElement"
        /\ Write(p, [l EXCEPT !.check = is_filter_valid(l.cls, l.model, l.filters.items[l.idx]),
                              !.pc = "checked"])

RaiseInvalidOf(p) ==
    LET l == procs[p]
    IN  /\ l.pc = "checked"
        /\ ~l.check.is_valid
        /\ Write(p, [l EXCEPT !.exc = FilterNotValid(l.filters.items[l.idx], l.check.message),
                              !.pc = "raised"])

TranslateOf(p) ==
    LET l == procs[p]
        out == convert_filter(l.cls, l.model, l.filters.items[l.idx])
    IN  /\ l.pc = "checked"
        /\ l.check.is_valid
        /\ Write(p, IF out.exc = NoExc
                    THEN [l EXCEPT !.result = ExtendResult(@, out.value),
                                   !.idx = @ + 1, !.pc = "loop"]
                    ELSE [l EXCEPT !.exc = out.exc, !.pc = "raised"])

ReturnOf(p) ==
    LET l == procs[p]
    IN  /\ l.pc = "loop"
        /\ l.idx > Len(l.filters.items)
        /\ Write(p, [l EXCEPT !.ret = PyList(l.result), !.pc = "returned"])

NextConcurrent ==
    \E p \in Procs :
        \/ EnterOf(p)
        \/ PassRawOf(p)
        \/ ValidateOf(p)
        \/ RaiseInvalidOf(p)
        \/ TranslateOf(p)
        \/ ReturnOf(p)

SpecConcurrent == InitConcurrent /\ [][NextConcurrent]_vars

(***************************************************************************)
(* Properties                                                              *)
(***************************************************************************)
Terminal == pc \in {"returned", "raised"}

\* What the finished call gave back, in the shape of Returned and Raised.
Outcome == [exc |-> exc, value |-> ret]

Range(q) == {q[i] : i \in 1..Len(q)}

IsDict(e) == e.py = "dict"

\* The maps among the elements of the local sequence filters.
MapPositions == {i \in 1..Len(filters.items) : IsDict(filters.items[i])}

\* Columns plus hybrid properties and hybrid methods, read off the mapper.
FieldNames(m) == Columns(m) \cup HybridProperties(m) \cup HybridMethods(m)

HybridNames(m) == HybridProperties(m) \cup HybridMethods(m)

\* ---- C1 ----
RECURSIVE Contributions(_, _, _)
Contributions(c, m, items) ==
    IF items = <<>> THEN <<>>
    ELSE (IF Head(items).py = "ColumnElement" THEN <<Head(items)>>
          ELSE convert_filter(c, m, Head(items)).value)
         \o Contributions(c, m, Tail(items))

AllMapsValid(c, m, items) ==
    \A i \in 1..Len(items) : IsDict(items[i]) => is_filter_valid(c, m, items[i]).is_valid

IsOneMap(a) == IsDict(a) \/ (a.py = "list" /\ Len(a.items) = 1 /\ IsDict(a.items[1]))
TheMap(a) == IF IsDict(a) THEN a ELSE a.items[1]

\* C2: for a map whose keys are all valid field names, SimpleFilterConverter
\* returns exactly one predicate field == value per key, in the key order.
C2_SimpleOneEqualityPerKey ==
    (/\ cls = "SimpleFilterConverter" /\ Terminal /\ IsOneMap(arg)
     /\ Keys(TheMap(arg)) \subseteq FieldNames(model))
        => /\ pc = "returned"
           /\ Len(ret.items) = Len(TheMap(arg).items)
           /\ \A i \in 1..Len(TheMap(arg).items) :
                 ret.items[i] =
                     ColumnElement([op |-> "==",
                                    a |-> get_sqlalchemy_field(model, TheMap(arg).items[i].k),
                                    b |-> TheMap(arg).items[i].v])

C2_Witness ==
    /\ cls = "SimpleFilterConverter" /\ pc = "returned" /\ IsDict(arg)
    /\ Len(arg.items) = 2 /\ Len(ret.items) = 2
    /\ ret.items[1].e.a.attr = F_name /\ ret.items[2].e.a.attr = F_id

\* ---- C3 ----
\* C3: convert(None) returns an empty sequence for every strategy, and a lone
\* map or raw predicate gives what the one-element sequence holding it gives.
C3_NoneAndLoneFilter ==
    /\ (Terminal /\ arg = PyNone) => (pc = "returned" /\ ret = PyList(<<>>))
    /\ (Terminal /\ arg.py \in {"dict", "ColumnElement"})
           => Outcome = convert_from(cls, model, <<arg>>, 1, <<>>)

C3_Witness ==
    /\ pc = "returned" /\ IsDict(arg) /\ Len(ret.items) = 2

\* ---- C4 ----
\* The map d names a field that the model does not have.
RefsUnknownField(c, m, d) ==
    CASE c = "SimpleFilterConverter" -> \E k \in Keys(d) : k \notin FieldNames(m)
      [] c = "AdvancedOperatorFilterConverter" ->
             /\ HasKey(d, K_field) /\ Get(d, K_field).py = "str"
             /\ Get(d, K_field).s \notin FieldNames(m)
      [] c = "DjangoLikeFilterConverter" ->
             \E k \in Keys(d) : Split(k)[1] \notin FieldNames(m)

\* The map d is well formed for c and names hybrid attributes only.
RefsOnlyHybrids(c, m, d) ==
    /\ d.items # <<>>
    /\ CASE c = "SimpleFilterConverter" -> Keys(d) \subseteq HybridNames(m)
         [] c = "AdvancedOperatorFilterConverter" ->
                /\ Keys(d) = {K_field, K_value}
                /\ Get(d, K_field).py = "str" /\ Get(d, K_field).s \in HybridNames(m)
         [] c = "DjangoLikeFilterConverter" ->
                \A k \in Keys(d) :
                    /\ Split(k)[1] \in HybridNames(m)
                    /\ Len(Split(k)) = 1
                       \/ (Len(Split(k)) = 2 /\ Split(k)[2] \in DjangoOperatorsSet)

\* C4: in all three strategies a map naming a field outside the model's valid
\* field names makes convert raise FilterError, before any predicate of that
\* map is built; a hybrid property or hybrid method name is accepted.
C4_UnknownFieldRejectedBeforeTranslation ==
    /\ (pc = "checked" /\ RefsUnknownField(cls, model, filters.items[idx]))
           => ~check.is_valid
    /\ (Terminal /\ arg # PyNone
        /\ \E i \in MapPositions : RefsUnknownField(cls, model, filters.items[i]))
           => (pc = "raised" /\ exc.type = "FilterError")
    /\ pc # "call"
           => \A i \in Range(built) : ~RefsUnknownField(cls, model, filters.items[i])
    /\ (pc = "checked" /\ RefsOnlyHybrids(cls, model, filters.items[idx]))
           => check.is_valid

C4_Witness ==
    /\ pc = "raised" /\ cls = "DjangoLikeFilterConverter" /\ idx = 2
    /\ IsDict(filters.items[1]) /\ IsDict(filters.items[2])
    /\ RefsUnknownField(cls, model, filters.items[2])
    /\ RefsOnlyHybrids(cls, model, filters.items[1])
    /\ built = <<1>> /\ validated = <<1, 2>>

\* ---- C5 ----
\* C5: when a map of the input fails validation, convert raises FilterError and
\* returns nothing, whatever was collected from earlier elements, and the error
\* carries the offending map and the validator's reason.
C5_InvalidMapRaisesWithMapAndReason ==
    /\ (Terminal /\ arg # PyNone
        /\ \E i \in MapPositions : ~is_filter_valid(cls, model, filters.items[i]).is_valid)
           => pc = "raised"
    /\ pc = "raised"
           => /\ ret = NoValue
              /\ exc.type = "FilterError"
              /\ exc.data = filters.items[idx]
              /\ exc.message = is_filter_valid(cls, model, filters.items[idx]).message
              /\ exc.message.text # ""

C5_Witness ==
    /\ pc = "raised" /\ idx = 2 /\ Len(result) = 2 /\ ret = NoValue
    /\ exc.data = arg.items[2]

\* ---- C6 ----
\* The map d lacks 'field', or its 'field' is no string, or it lacks 'value', or
\* its 'operator' is present and outside the advanced-operator set.
MalformedAdvanced(d) ==
    \/ ~HasKey(d, K_field)
    \/ (HasKey(d, K_field) /\ Get(d, K_field).py # "str")
    \/ ~HasKey(d, K_value)
    \/ (HasKey(d, K_operator)
        /\ ~(Get(d, K_operator).py = "str" /\ Get(d, K_operator).s \in AdvancedOperatorsSet))

AdvancedKeys == {K_field, K_value, K_operator}

\* The map d without the keys other than field, value and operator.
WithoutExtraKeys(d) == PyDict(SelectSeq(d.items, LAMBDA it : it.k \in AdvancedKeys))

\* C7 as stated: a valid advanced map has the key set {field, value} or
\* {field, value, operator}; a map with any additional key is rejected.
C7_ExtraKeyRejected ==
    (cls = "AdvancedOperatorFilterConverter" /\ pc = "checked" /\ check.is_valid)
        => Keys(filters.items[idx]) \in {{K_field, K_value}, AdvancedKeys}

\* C7 as amended: a valid advanced map holds the keys field and value, and
\* keys other than field, value and operator are ignored: the map is accepted
\* or rejected as the same map without them is, and translated to the same
\* predicate.
C7_ExtraKeysIgnored ==
    /\ (cls = "AdvancedOperatorFilterConverter" /\ pc = "checked")
           => /\ check.is_valid => {K_field, K_value} \subseteq Keys(filters.items[idx])
              /\ check.is_valid =
                     Advanced_is_filter_valid(model,
                                              WithoutExtraKeys(filters.items[idx])).is_valid
    /\ (cls = "AdvancedOperatorFilterConverter" /\ pc = "returned" /\ IsDict(arg))
           => Outcome = convert_from(cls, model, <<WithoutExtraKeys(arg)>>, 1, <<>>)

C7_Witness ==
    /\ cls = "AdvancedOperatorFilterConverter" /\ pc = "returned" /\ IsDict(arg)
    /\ <<"extra">> \in Keys(arg)
    /\ Len(ret.items) = 1

\* ---- C8 ----
\* The map d is {field, value, operator} with a valid field and an operator
\* that has an entry in the advanced lookup_mapping.
HasMappedOperator(m, d) ==
    /\ Keys(d) = AdvancedKeys
    /\ Get(d, K_field).py = "str" /\ Get(d, K_field).s \in FieldNames(m)
    /\ Get(d, K_operator).py = "str"
    /\ Get(d, K_operator).s \in DOMAIN Advanced_lookup_mapping

\* C8: for a valid field, the advanced strategy converts {field, value,
\* operator: op} for every op that has an entry in the advanced lookup_mapping
\* (==, >, <, >=, <=, is, is_not, between, contains), and returns the predicate
\* that entry's function builds.
C8_EveryMappedOperatorSupported ==
    (/\ cls = "AdvancedOperatorFilterConverter" /\ Terminal /\ IsDict(arg)
     /\ HasMappedOperator(model, arg))
        => /\ pc = "returned"
           /\ ret = PyList(<<Call(Advanced_lookup_mapping[Get(arg, K_operator).s],
                                  get_sqlalchemy_field(model, Get(arg, K_field).s),
                                  Get(arg, K_value))>>)

\* ---- C9 ----
AllDicts(items) == \A i \in 1..Len(items) : IsDict(items[i])

\* The predicate C9 names for the valid advanced map d.
AdvancedPredicate(m, d) ==
    LET a == get_sqlalchemy_field(m, Get(d, K_field).s)
        b == Get(d, K_value)
    IN  IF ~HasKey(d, K_operator) THEN ColumnElement([op |-> "==", a |-> a, b |-> b])
        ELSE Call(Advanced_lookup_mapping[Get(d, K_operator).s], a, b)

MalformedDjangoKey(k) ==
    \/ Len(Split(k)) > 2
    \/ (Len(Split(k)) = 2 /\ Split(k)[2] \notin DjangoOperatorsSet)

\* C10: DjangoLikeFilterConverter.convert raises FilterError for every map with
\* a key of more than two '__'-separated parts or with a lookup part outside
\* the fixed lookup set.
C10_MalformedDjangoKeyRaises ==
    (/\ cls = "DjangoLikeFilterConverter" /\ Terminal /\ arg # PyNone
     /\ \E i \in MapPositions : \E k \in Keys(filters.items[i]) : MalformedDjangoKey(k))
        => (pc = "raised" /\ exc.type = "FilterError" /\ ret = NoValue)

C10_Witness ==
    /\ cls = "DjangoLikeFilterConverter" /\ pc = "raised" /\ IsDict(arg)
    /\ Keys(arg) = {<<"id", "_", "_">>}
    /\ Split(<<"id", "_", "_">>) = <<F_id, <<>>>>
    /\ exc.type = "FilterError" /\ exc.message.lookup = <<>>

\* ---- C11 ----
HasDunder(k) == \E i \in 1..(Len(k) - 1) : k[i] = "_" /\ k[i + 1] = "_"

\* The key is a field name of the model, or field__lookup with a field name of
\* the model and a lookup of the fixed set.
ValidDjangoKey(m, k) ==
    \/ k \in FieldNames(m)
    \/ \E f \in FieldNames(m), l \in DjangoOperatorsSet : k = Lookup(f, l)

\* The predicate the key and value stand for: the operator registered for the
\* lookup, on the field and the value; a key without '__' as field__exact.
DjangoPredicate(m, k, v) ==
    IF ~HasDunder(k)
    THEN Call(Django_lookup_mapping[<<"exact">>], get_sqlalchemy_field(m, k), v)
    ELSE LET fl == CHOOSE p \in FieldNames(m) \X DjangoOperatorsSet : k = Lookup(p[1], p[2])
         IN  Call(Django_lookup_mapping[fl[2]], get_sqlalchemy_field(m, fl[1]), v)

C12_BetweenLengthNotTwoIsFalse ==
    (/\ pc # "call" /\ call.fn \in {"between", "django_range"} /\ HasLen(call.b))
        => /\ pc = "returned" /\ exc = NoExc
           /\ IF Len(call.b.items) = 2
              THEN ret = ColumnElement([op |-> "BETWEEN", a |-> call.a,
                                        lo |-> call.b.items[1], hi |-> call.b.items[2]])
              ELSE ret = ColumnElement([op |-> "false"])

\* django_range on a list of three elements.
C12_Witness ==
    /\ pc = "returned" /\ call.fn = "django_range"
    /\ call.b = PyList(<<PyInt(1), PyInt(2), PyInt(1)>>)
    /\ ret.e.op = "false"

\* ---- C13 ----
\* C13: django_isnull(field, b) is field IS NULL when b is true and
\* field IS NOT NULL when b is false, for every field.
C13_IsnullByFlag ==
    (pc # "call" /\ call.fn = "django_isnull")
        => /\ pc = "returned"
           /\ call.b = PyBool(TRUE) =>
                  ret = ColumnElement([op |-> "IS", a |-> call.a, b |-> PyNone])
           /\ call.b = PyBool(FALSE) =>
                  ret = ColumnElement([op |-> "IS NOT", a |-> call.a, b |-> PyNone])

C13_Witness ==
    /\ pc = "returned" /\ call.fn = "django_isnull" /\ call.b = PyBool(FALSE)
    /\ call.a.attr = F_name /\ ret.e.op = "IS NOT" /\ ret.e.b = PyNone

\* ---- C14 ----
\* C14: exact and iexact with None give IS NULL and never an equality with
\* null; with another value exact gives the equality, iexact gives ILIKE on the
\* value as it is (no wildcard added) for a str and the equality otherwise.
C14_ExactNullAware ==
    (pc # "call" /\ call.fn \in {"django_exact", "django_iexact"})
        => /\ pc = "returned"
           /\ ret.e.a = call.a
           /\ ret.e.op = (IF call.b = PyNone THEN "IS"
                          ELSE IF call.fn = "django_iexact" /\ call.b.py = "str" THEN "ILIKE"
                          ELSE "==")
           /\ ret.e.b = call.b

C14_Witness ==
    /\ pc = "returned" /\ call.fn = "django_iexact" /\ call.b = PyNone
    /\ ret.e.op = "IS" /\ ret.e.b = PyNone

\* ---- C15 ----
SubstringFunctions ==
    {"django_contains", "django_icontains", "django_startswith", "django_istartswith",
     "django_endswith", "django_iendswith"}

\* C15: for a str v, contains and icontains compare with '%v%', startswith and
\* istartswith with 'v%', endswith and iendswith with '%v', by LIKE for the
\* case-sensitive function and ILIKE for the case-insensitive one; a value
\* that is not a str is compared as it is.
C15_SubstringWildcards ==
    (pc # "call" /\ call.fn \in SubstringFunctions)
        => LET before == IF call.fn \in {"django_contains", "django_icontains",
                                         "django_endswith", "django_iendswith"}
                         THEN <<"%">> ELSE <<>>
               after == IF call.fn \in {"django_contains", "django_icontains",
                                        "django_startswith", "django_istartswith"}
                        THEN <<"%">> ELSE <<>>
           IN  /\ pc = "returned"
               /\ ret.e.a = call.a
               /\ ret.e.op = (IF call.fn \in {"django_icontains", "django_istartswith",
                                              "django_iendswith"}
                              THEN "ILIKE" ELSE "LIKE")
               /\ ret.e.b = (IF call.b.py = "str"
                             THEN PyStr(before \o call.b.s \o after)
                             ELSE call.b)

\* iendswith on 'abc'.
C15_Witness ==
    /\ pc = "returned" /\ call.fn = "django_iendswith" /\ call.b = V_abc
    /\ ret.e.op = "ILIKE" /\ ret.e.b.s = <<"%">> \o V_abc.s

\* ---- C16 ----
\* C16: _convert_filter of AdvancedOperatorFilterConverter and of
\* DjangoLikeFilterConverter, called directly on a map that validation
\* rejects, raises the 'Never situation' FilterError: it raises no other
\* exception and returns no predicate list.
C16_DirectCallRaisesNeverSituation ==
    (/\ pc # "call" /\ call.fn = "_convert_filter"
     /\ cls \in {"AdvancedOperatorFilterConverter", "DjangoLikeFilterConverter"}
     /\ ~is_filter_valid(cls, model, arg).is_valid)
        => (pc = "raised" /\ exc = NeverSituationError /\ ret = NoValue)

\* ---- C17 ----
\* Some model selected by the statement has a relationship of that name.
Resolvable(s, name) == \E i \in 1..Len(s.entities) : name \in Relationships(s.entities[i])

ResolvableNames(s, names) ==
    LET Test(n) == Resolvable(s, n) IN SelectSeq(names, Test)

UnresolvableNames(s, names) ==
    LET Test(n) == ~Resolvable(s, n) IN SelectSeq(names, Test)

\* C17: apply_joins never raises on an unresolvable name: it logs one warning
\* per name that is no relationship of any model of the statement and adds no
\* join for it, adds one join per resolvable name, in argument order, with the
\* isouter and full flags it was given, and returns the statement as it was
\* when no name resolves.
C17_ApplyJoinsWarnsAndSkips ==
    (pc # "call" /\ call.fn = "apply_joins")
        => LET good == ResolvableNames(call.stmt, call.relationship_names)
               bad == UnresolvableNames(call.stmt, call.relationship_names)
           IN  /\ pc = "returned" /\ exc = NoExc
               /\ Len(log) = Len(bad)
               /\ \A i \in 1..Len(bad) :
                     log[i].level = "WARNING" /\ log[i].relationship = bad[i]
               /\ ret.entities = call.stmt.entities /\ ret.options = call.stmt.options
               /\ Len(ret.joins) = Len(call.stmt.joins) + Len(good)
               /\ \A i \in 1..Len(good) :
                     LET j == ret.joins[Len(call.stmt.joins) + i]
                     IN  /\ j.target.attr = good[i]
                         /\ j.target.model \in Range(call.stmt.entities)
                         /\ good[i] \in Relationships(j.target.model)
                         /\ j.isouter = call.left_outer_join
                         /\ j.full = call.full_join
               /\ good = <<>> => ret = call.stmt

\* apply_joins(select(MyModel), 'wrong_relation_name', 'other_models',
\* left_outer_join=True).
C17_Witness ==
    /\ pc = "returned" /\ call.fn = "apply_joins"
    /\ call.stmt = Select(<<"MyModel">>)
    /\ call.relationship_names = <<F_wrong_relation_name, F_other_models>>
    /\ call.left_outer_join /\ ~call.full_join
    /\ Len(log) = 1 /\ log[1].relationship = F_wrong_relation_name
    /\ Len(ret.joins) = 1 /\ ret.joins[1].isouter

\* ---- C18 ----
\* C18: apply_loads adds one load option, built with the given strategy, per
\* resolvable name in argument order; for a name no model of the statement has
\* it adds nothing and logs nothing, and it never raises.
C18_ApplyLoadsSkipsSilently ==
    (pc # "call" /\ call.fn = "apply_loads")
        => LET good == ResolvableNames(call.stmt, call.relationship_names)
           IN  /\ pc = "returned" /\ exc = NoExc
               /\ log = <<>>
               /\ ret.entities = call.stmt.entities /\ ret.joins = call.stmt.joins
               /\ Len(ret.options) = Len(call.stmt.options) + Len(good)
               /\ \A i \in 1..Len(good) :
                     LET o == ret.options[Len(call.stmt.options) + i]
                     IN  /\ o.py = "Load" /\ o.strategy = call.load_strategy
                         /\ o.path.attr = good[i]
                         /\ o.path.model \in Range(call.stmt.entities)
                         /\ good[i] \in Relationships(o.path.model)

\* apply_loads(select(MyModel), 'other_models', 'wrong_relation_name',
\* load_strategy=selectinload).
C18_Witness ==
    /\ pc = "returned" /\ call.fn = "apply_loads"
    /\ call.stmt = Select(<<"MyModel">>)
    /\ call.relationship_names = <<F_other_models, F_wrong_relation_name>>
    /\ call.load_strategy = "selectinload"
    /\ log = <<>>
    /\ Len(ret.options) = 1 /\ ret.options[1].strategy = "selectinload"

\* ---- C19 ----
\* The relationship names _resolve_and_apply_loads was given.
LoadNames == IF call.loads.py = "str" THEN <<call.loads.s>> ELSE call.loads.items

\* C19: _resolve_and_apply_loads on a select statement, with a relationship
\* name no model of the statement has, raises NoModelRelationshipError and
\* returns no statement.
C19_UnknownLoadRaises ==
    (/\ pc # "call" /\ call.fn = "_resolve_and_apply_loads"
     /\ UnresolvableNames(call.stmt, LoadNames) # <<>>)
        => (pc = "raised" /\ exc.type = "NoModelRelationshipError" /\ ret = NoValue)

\* ---- C20 ----
\* C20: building a disable statement with an empty id set raises ValueError,
\* and with a disable-field type other than bool or datetime raises TypeError
\* (one of the two when both hold); the call then returns nothing, so that a
\* returned UPDATE statement always has a non-empty id set and a supported
\* type.
C20_DisablePreconditions ==
    (pc # "call" /\ call.fn = "_disable_items_stmt")
        => LET no_ids == call.ids_to_disable = {}
               bad_type == call.field_type \notin {"bool", "datetime"}
           IN  /\ (no_ids \/ bad_type) =>
                      /\ pc = "raised" /\ ret = NoValue /\ stmt = NoValue
                      /\ exc.type \in {"ValueError", "TypeError"}
               /\ (no_ids /\ ~bad_type) => exc.type = "ValueError"
               /\ (bad_type /\ ~no_ids) => exc.type = "TypeError"
               /\ pc = "returned" =>
                      /\ ret.py = "Update"
                      /\ ~no_ids /\ ~bad_type
                      /\ ret.where[1].e.op = "IN"
                      /\ ret.where[1].e.b.elements = call.ids_to_disable

\* An empty id set with the bool type.
C20_Witness ==
    /\ pc = "raised" /\ call.fn = "_disable_items_stmt"
    /\ call.ids_to_disable = {} /\ call.field_type = "bool"
    /\ exc = ValueErrorEmptyIds /\ ret = NoValue

\* ---- C21 ----
\* The predicates the extra filters of the call stand for.
ExtraPredicates ==
    IF call.extra_filters = PyNone THEN <<>>
    ELSE convert_from("SimpleFilterConverter", call.model,
                      WrapFilters(call.extra_filters).items, 1, <<>>).value.items

\* What follows 'id_field IN ids' and precedes the extra filters.
ExclusionPredicates == SubSeq(ret.where, 2, Len(ret.where) - Len(ExtraPredicates))

\* C21 as stated: with the exclusion flag set the disable filters hold exactly
\* one more predicate, disable_field IS NOT true for a bool field and
\* disable_field IS NOT NULL for a timestamp field; with the flag not set they
\* hold none.
C21_ExclusionIsNotNull ==
    (pc = "returned" /\ call.fn = "_disable_items_stmt")
        => ExclusionPredicates =
               IF ~call.allow_filter_by_value THEN <<>>
               ELSE IF call.field_type = "bool"
               THEN <<ColumnElement([op |-> "IS NOT", a |-> call.disable_field,
                                     b |-> PyBool(TRUE)])>>
               ELSE <<ColumnElement([op |-> "IS NOT", a |-> call.disable_field,
                                     b |-> PyNone])>>

\* C21 amended: the predicate of a timestamp field is disable_field IS NULL
\* (the rows whose timestamp is not set are the ones not disabled yet).
C21_ExclusionOfDisabledRows ==
    (pc = "returned" /\ call.fn = "_disable_items_stmt")
        => ExclusionPredicates =
               IF ~call.allow_filter_by_value THEN <<>>
               ELSE IF call.field_type = "bool"
               THEN <<ColumnElement([op |-> "IS NOT", a |-> call.disable_field,
                                     b |-> PyBool(TRUE)])>>
               ELSE <<ColumnElement([op |-> "IS", a |-> call.disable_field,
                                     b |-> PyNone])>>

\* A timestamp field with the flag set and an extra filter.
C21_Witness ==
    /\ pc = "returned" /\ call.fn = "_disable_items_stmt"
    /\ call.allow_filter_by_value /\ call.field_type = "datetime"
    /\ call.extra_filters # PyNone
    /\ Len(ret.where) = 3 /\ ret.where[2].e.op = "IS" /\ ret.where[3].e.op = "=="

\* ---- C22 ----
\* C22: every disable statement produced is an UPDATE whose filter list holds
\* id_field IN ids_to_disable whatever the exclusion flag and the extra
\* filters are, the extra filters being added after it, and which sets the
\* disable field to True for a bool field and to the current UTC instant for
\* a timestamp field.
C22_DisableStatementShape ==
    (pc = "returned" /\ call.fn = "_disable_items_stmt")
        => /\ ret.py = "Update" /\ ret.entity = call.model
           /\ ret.where[1] = ColumnElement([op |-> "IN", a |-> call.id_field,
                                            b |-> PySet(call.ids_to_disable)])
           /\ Len(ret.where) >= 1 + Len(ExtraPredicates)
           /\ SubSeq(ret.where, Len(ret.where) - Len(ExtraPredicates) + 1, Len(ret.where))
                  = ExtraPredicates
           /\ Len(ret.values) = 1
           /\ ret.values[1].k = call.disable_field
           /\ ret.values[1].v = (IF call.field_type = "bool" THEN PyBool(TRUE)
                                 ELSE [py |-> "datetime", utc |-> call.now])

\* A timestamp field disabled at the second instant, with an extra filter.
C22_Witness ==
    /\ pc = "returned" /\ call.fn = "_disable_items_stmt"
    /\ call.field_type = "datetime" /\ call.now = 2 /\ call.ids_to_disable = {1, 3}
    /\ call.extra_filters # PyNone /\ ~call.allow_filter_by_value
    /\ Len(ret.where) = 2 /\ ret.where[1].e.b.elements = {1, 3}
    /\ ret.values[1].v.utc = 2

\* ---- C23 ----
\* The attribute a search-by field stands for: itself, or the model's
\* attribute of that name.
SearchAttribute(field) ==
    IF field.py = "QueryableAttribute" THEN field
    ELSE [py |-> "QueryableAttribute", model |-> call.model, attr |-> field.s,
          called |-> FALSE]

SearchClauses(fields) ==
    [i \in 1..Len(fields) |->
        ColumnElement([op |-> "ILIKE", a |-> SearchAttribute(fields[i]),
                       b |-> PyStr(<<"%">> \o call.search.s \o <<"%">>)])]

\* C23: search with a term and a non-empty list of fields, given as
\* references or as names, builds one field ILIKE '%term%' per field, under OR
\* by default and under AND when conjunctive search is asked for; a missing
\* term or a missing or empty field list adds no predicate to the list
\* statement.
C23_SearchFilter ==
    /\ (pc = "returned" /\ call.fn = "_make_search_filter")
           => /\ ret.py = "BooleanClauseList"
              /\ ret.operator = (IF call.use_and_clause THEN "AND" ELSE "OR")
              /\ ret.clauses = SearchClauses(call.search_by_args)
    /\ (pc = "returned" /\ call.fn = "_get_item_list_stmt")
           => IF call.search = PyNone \/ call.search_by = PyNone
                 \/ call.search_by.items = <<>>
              THEN ret.where = <<>>
              ELSE /\ Len(ret.where) = 1
                   /\ ret.where[1].operator = "OR"
                   /\ ret.where[1].clauses = SearchClauses(call.search_by.items)

\* search 'value' by (MyModel.name, 'other_name'), conjunctive.
C23_Witness ==
    /\ pc = "returned" /\ call.fn = "_make_search_filter"
    /\ call.use_and_clause /\ Len(call.search_by_args) = 2
    /\ call.search_by_args[1].py = "QueryableAttribute"
    /\ call.search_by_args[2] = PyStr(<<"other", "_", "name">>)
    /\ ret.operator = "AND"
    /\ ret.clauses[2].e.a.attr = <<"other", "_", "name">>
    /\ ret.clauses[2].e.b.s = <<"%", "value", "%">>

\* ---- C24 ----
\* C24: disable on a repository, async or sync, whose disable_id_field,
\* disable_field or disable_field_type is None raises
\* RepositoryAttributeError, and nothing is delegated to the query class.
C24_DisableNeedsAttributes ==
    (/\ pc # "call" /\ call.fn = "disable"
     /\ \/ call.disable_id_field = PyNone
        \/ call.disable_field = PyNone
        \/ call.disable_field_type = NoFieldType)
       => /\ pc = "raised"
          /\ exc = RepositoryAttributeError
          /\ log = <<>>

\* ---- C25 ----
\* The session methods called since position at of the log, in order.
SessionMethodsSince(at) ==
    LET calls == SelectSeq(SubSeq(log, at + 1, Len(log)),
                           LAMBDA r : "method" \in DOMAIN r)
    IN  [i \in 1..Len(calls) |-> calls[i].method]

\* C25: on leaving the context exactly one of commit and rollback is called on
\* the session, then close: rollback when the block raised, commit otherwise;
\* the exception of the block is not suppressed.
C25_ExitCommitsOrRollsBackThenCloses ==
    (pc = "idle" /\ call.fn = "__aexit__")
       => /\ SessionMethodsSince(call.at)
                = <<IF call.exc # NoExc THEN "rollback" ELSE "commit", "close">>
          /\ call.exc # NoExc => exc # NoExc

\* ---- C28 ----
\* C28: every session __aenter__ opened is closed once the matching __aexit__
\* has finished, returning or raising, also when commit or rollback raises.
C28_SessionClosedAfterExit ==
    pc = "idle" => \A i \in 1..Len(sessions) : sessions[i] = "closed"

\* ---- C29 ----
\* C29: commit, rollback and close on a unit of work that was never entered
\* return without calling a session method and without raising.
C29_NeverEnteredCallsReturn ==
    (call.fn \in {"commit", "rollback", "close"} /\ ~call.entered)
       => exc = NoExc /\ log = <<>>

\* ---- C27 ----
\* C27: a filter map that passed validation is translated without failing on
\* the operator lookup: every operator the advanced guard admits
\* (AdvancedOperatorsSet, and '==' when none is given) has an entry in the
\* advanced lookup_mapping, and the keys of the Django lookup_mapping are
\* DjangoOperatorsSet.
C27_ValidatedOperatorsHaveEntries ==
    /\ (pc = "raised" /\ check # NoValue /\ check.is_valid) => exc.type # "KeyError"
    /\ (pc = "checked" /\ check.is_valid /\ cls = "AdvancedOperatorFilterConverter")
          => (IF HasKey(filters.items[idx], K_operator)
              THEN Get(filters.items[idx], K_operator).s
              ELSE <<"==">>) \in DOMAIN Advanced_lookup_mapping
    /\ AdvancedOperatorsSet \cup {<<"==">>} \subseteq DOMAIN Advanced_lookup_mapping
    /\ DOMAIN Django_lookup_mapping = DjangoOperatorsSet

\* An advanced map with an operator of its own and a Django map with a lookup
\* were validated and translated.
C27_Witness ==
    /\ pc = "returned"
    /\ built # <<>>
    /\ \/ /\ cls = "AdvancedOperatorFilterConverter"
          /\ \E i \in 1..Len(built) :
                /\ HasKey(filters.items[built[i]], K_operator)
                /\ Get(filters.items[built[i]], K_operator).s = <<"between">>
       \/ /\ cls = "DjangoLikeFilterConverter"
          /\ \E i \in 1..Len(built) :
                Len(Split(filters.items[built[i]].items[1].k)) = 2

\* ---- C26 ----
\* What convert returns or raises when nothing else runs.
convert_alone(c) ==
    IF c.filters = PyNone THEN Returned(PyList(<<>>))
    ELSE convert_from(c.cls, c.model, WrapFilters(c.filters).items, 1, <<>>)

\* C26: conversion reads and writes no shared mutable state: under any
\* interleaving of concurrent convert calls each call ends as it would alone,
\* the filters its caller passed are unchanged, and the lookup_mapping tables
\* are unchanged.
C26_ConcurrentConvertIsolated ==
    call.fn = "convert" /\ procs # <<>>
       => /\ \A p \in DOMAIN procs :
                /\ procs[p].pc \in {"returned", "raised"}
                      => [exc |-> procs[p].exc, value |-> procs[p].ret]
                            = convert_alone(call.args[p])
                /\ procs[p].arg = call.args[p].filters
          /\ mappings = LookupMappings

\* Two calls on the same class were both past their first element before
\* either ended, and both have ended, one by returning predicates.
C26_Witness ==
    /\ call.fn = "convert" /\ procs # <<>>
    /\ \A p \in DOMAIN procs : procs[p].pc \in {"returned", "raised"}
    /\ \E p, q \in DOMAIN procs :
          /\ p # q
          /\ procs[p].cls = procs[q].cls
          /\ procs[p].pc = "returned" /\ Len(procs[p].ret.items) >= 2
          /\ procs[q].idx >= 2

\* ---- C30 ----
\* The models of the statement that have the relationship, by position.
ModelsHaving(s, name) ==
    {i \in 1..Len(s.entities) : name \in Relationships(s.entities[i])}

\* The relationship attribute of the last model of the statement that has it.
LastRelationship(s, name) ==
    LET last == CHOOSE i \in ModelsHaving(s, name) :
                    \A j \in ModelsHaving(s, name) : j <= i
    IN  [py |-> "QueryableAttribute", model |-> s.entities[last], attr |-> name,
         called |-> FALSE]

\* C30: a relationship name is resolved against every model of the statement:
\* it resolves exactly when at least one model has it, and when several models
\* of a multi-entity select have it apply_joins and apply_loads emit exactly
\* one join or load for it, built from the relationship of the last such model
\* in statement order.
C30_LastModelWins ==
    (pc = "returned" /\ call.fn \in {"apply_joins", "apply_loads"})
        => LET names == call.relationship_names
               found == {i \in 1..Len(names) : ModelsHaving(call.stmt, names[i]) # {}}
               emitted == IF call.fn = "apply_joins"
                          THEN [i \in 1..Len(ret.joins) |-> ret.joins[i].target]
                          ELSE [i \in 1..Len(ret.options) |-> ret.options[i].path]
               \* position among the emitted of the i-th name
               at(i) == Cardinality({j \in found : j <= i})
           IN  /\ Len(emitted) = Cardinality(found)
               /\ \A i \in found : emitted[at(i)] = LastRelationship(call.stmt, names[i])

\* apply_joins(select(OtherModel, ChildModel), 'my_model'): both models have
\* my_model, one join is made, to ChildModel.my_model.
C30_Witness ==
    /\ pc = "returned" /\ call.fn = "apply_joins"
    /\ call.stmt = Select(<<"OtherModel", "ChildModel">>)
    /\ call.relationship_names = <<F_my_model>>
    /\ Cardinality(ModelsHaving(call.stmt, F_my_model)) = 2
    /\ Len(ret.joins) = 1
    /\ ret.joins[1].target.model = "ChildModel"

====
